---- MODULE Spec2Model ----
(***************************************************************************)
(* Versioned configuration store and tool registry of ai-proxy.            *)
(*                                                                         *)
(* The model follows src/src/langchain_proxy/server/config.py (ConfigStore *)
(* and ToolStore on the SQLAlchemy tables of database.py) and              *)
(* src/src/langchain_proxy/core/graph.py (the custom-tool cache).          *)
(*                                                                         *)
(* Text is modelled as sequences of one-character strings, a version       *)
(* string "1.10.0" as the sequence of its dot-separated components, each a *)
(* sequence of characters (digits are the naturals 0..9).                  *)
(***************************************************************************)
EXTENDS Integers, Sequences, FiniteSets, TLC

VARIABLES
    models,          \* custom_models rows with their model_versions rows, by id
    active_models,   \* active_models rows: model id -> priority
    tools,           \* tools rows, by id
    available,       \* the global AVAILABLE_TOOL_NAMES
    cache,           \* the global _custom_tools_cache: tool name -> executor
    clock,           \* datetime.utcnow(), counted in committed tool writes
    config_store,    \* the global _config_store: None or the ConfigStore made last
    locks,           \* ConfigStore._lock of every ConfigStore made: its holder or 0
    workers,         \* the request threads: where each one is and what it holds
    start,           \* the tables as they were when the threads were let loose
    llm_cache,       \* the global _llm_cache: cache key -> client
    last             \* the last call and its outcome

cfgVars == <<models, active_models>>
toolVars == <<tools, available, cache>>
runVars == <<config_store, locks, workers, start, llm_cache>>
vars == <<models, active_models, tools, available, cache, clock,
          config_store, locks, workers, start, llm_cache, last>>

---------------------------------------------------------------------------
(* Bounds of the model *)

MaxModels == 1       \* ids that create_model can hand out
MaxNameLen == 2      \* longest name given to create_model / update_model
MaxMajor == 1        \* largest MAJOR component given as input
MaxMinor == 1        \* largest MINOR component given as input
MaxPatch == 0        \* largest PATCH component given as input
MaxVersions == 3     \* rows of the model_versions table
MaxPriorityDepth == 2 \* activate_model calls are cut off below this priority
MaxTools == 1        \* ids that create_tool can hand out
MaxClock == 3        \* committed tool writes in one behaviour
MaxThreads == 2      \* request threads that run at the same time

---------------------------------------------------------------------------
(* Optional values: None is the empty tuple, a given value x is <<x>> *)

None == <<>>
Some(x) == <<x>>
IsNone(o) == o = <<>>
Val(o) == o[1]

Range(s) == {s[i] : i \in 1..Len(s)}

RECURSIVE FilterSeq(_, _)
FilterSeq(s, keep) ==
    IF s = <<>> THEN <<>>
    ELSE IF Head(s) \in keep THEN <<Head(s)>> \o FilterSeq(Tail(s), keep)
         ELSE FilterSeq(Tail(s), keep)

---------------------------------------------------------------------------
(* Names *)

MODEL_NAME_MIN_LENGTH == 2
MODEL_NAME_MAX_LENGTH == 64

LowerAlphabet ==
    <<"a", "b", "c", "d", "e", "f", "g", "h", "i", "j", "k", "l", "m",
      "n", "o", "p", "q", "r", "s", "t", "u", "v", "w", "x", "y", "z">>
UpperAlphabet ==
    <<"A", "B", "C", "D", "E", "F", "G", "H", "I", "J", "K", "L", "M",
      "N", "O", "P", "Q", "R", "S", "T", "U", "V", "W", "X", "Y", "Z">>
DigitChars == <<"0", "1", "2", "3", "4", "5", "6", "7", "8", "9">>

LowerLetters == Range(LowerAlphabet)
UpperLetters == Range(UpperAlphabet)
NameDigits == Range(DigitChars)
Digits == 0..9

\* the characters in ASCII order, for ORDER BY name
Ascii == <<" ", "-">> \o DigitChars \o UpperAlphabet \o <<"_">> \o LowerAlphabet

\* str.lower() on one character
LowerChar(c) ==
    IF c \in UpperLetters
    THEN LowerAlphabet[CHOOSE i \in 1..Len(UpperAlphabet) : UpperAlphabet[i] = c]
    ELSE c

Lower(s) == [i \in 1..Len(s) |-> LowerChar(s[i])]

\* str.strip(): drop leading and trailing blanks
RECURSIVE LStrip(_)
LStrip(s) == IF s # <<>> /\ Head(s) = " " THEN LStrip(Tail(s)) ELSE s

RECURSIVE RStrip(_)
RStrip(s) ==
    IF s # <<>> /\ s[Len(s)] = " " THEN RStrip(SubSeq(s, 1, Len(s) - 1)) ELSE s

Strip(s) == RStrip(LStrip(s))

\* MODEL_NAME_PATTERN ^[a-z][a-z0-9_-]*$
MatchesNamePattern(s) ==
    /\ s # <<>>
    /\ s[1] \in LowerLetters
    /\ \A i \in 2..Len(s) : s[i] \in LowerLetters \cup NameDigits \cup {"_", "-"}

\* validate_model_name: the normalised name, or None when it raises ValueError
validate_model_name(name) ==
    IF name = <<>> THEN None
    ELSE LET n == Lower(Strip(name)) IN
         IF Len(n) < MODEL_NAME_MIN_LENGTH THEN None
         ELSE IF Len(n) > MODEL_NAME_MAX_LENGTH THEN None
         ELSE IF ~MatchesNamePattern(n) THEN None
         ELSE Some(n)

\* SQL  s ILIKE p : case-insensitive, "_" matches any one character and "%"
\* any run of characters
RECURSIVE ILike(_, _)
ILike(s, p) ==
    IF p = <<>> THEN s = <<>>
    ELSE IF Head(p) = "%"
         THEN ILike(s, Tail(p)) \/ (s # <<>> /\ ILike(Tail(s), p))
         ELSE /\ s # <<>>
              /\ (Head(p) = "_" \/ LowerChar(Head(s)) = LowerChar(Head(p)))
              /\ ILike(Tail(s), Tail(p))

---------------------------------------------------------------------------
(* Versions *)

Ver(a, b, c) == << <<a>>, <<b>>, <<c>> >>

\* int(x) of a run of digits
RECURSIVE IntOf(_)
IntOf(ds) == IF ds = <<>> THEN 0 ELSE 10 * IntOf(SubSeq(ds, 1, Len(ds) - 1)) + ds[Len(ds)]

\* VERSION_PATTERN ^\d+\.\d+\.\d+$
MatchesVersionPattern(v) ==
    /\ Len(v) = 3
    /\ \A i \in 1..3 : v[i] # <<>> /\ \A j \in 1..Len(v[i]) : v[i][j] \in Digits

\* validate_version: the version, or None when it raises ValueError
validate_version(v) ==
    IF v = <<>> THEN None
    ELSE IF ~MatchesVersionPattern(v) THEN None
    ELSE Some(v)

\* the zip loop of compare_versions from component i on
RECURSIVE CompareFrom(_, _, _)
CompareFrom(v1, v2, i) ==
    IF i > Len(v1) \/ i > Len(v2) THEN 0
    ELSE IF IntOf(v1[i]) < IntOf(v2[i]) THEN -1
    ELSE IF IntOf(v1[i]) > IntOf(v2[i]) THEN 1
    ELSE CompareFrom(v1, v2, i + 1)

\* mutant: the components are compared from PATCH up to MAJOR
RECURSIVE CompareDownFrom(_, _, _)
CompareDownFrom(v1, v2, i) ==
    IF i < 1 THEN 0
    ELSE IF IntOf(v1[i]) < IntOf(v2[i]) THEN -1
    ELSE IF IntOf(v1[i]) > IntOf(v2[i]) THEN 1
    ELSE CompareDownFrom(v1, v2, i - 1)

compare_versions_patch_first(v1, v2) == CompareDownFrom(v1, v2, 3)

\* mutant: the components are compared as texts, digit by digit
RECURSIVE DigitsLess(_, _)
DigitsLess(x, y) ==
    IF y = <<>> THEN FALSE
    ELSE IF x = <<>> THEN TRUE
    ELSE IF Head(x) # Head(y) THEN Head(x) < Head(y)
    ELSE DigitsLess(Tail(x), Tail(y))

RECURSIVE CompareTextFrom(_, _, _)
CompareTextFrom(v1, v2, i) ==
    IF i > Len(v1) \/ i > Len(v2) THEN 0
    ELSE IF DigitsLess(v1[i], v2[i]) THEN -1
    ELSE IF DigitsLess(v2[i], v1[i]) THEN 1
    ELSE CompareTextFrom(v1, v2, i + 1)

compare_versions_as_text(v1, v2) == CompareTextFrom(v1, v2, 1)

compare_versions(v1, v2) == CompareFrom(v1, v2, 1)

---------------------------------------------------------------------------
(* Records of the configuration store *)

\* model ids are numbers here: 0 stands for the fixed id "a1b2c3d4"
DEFAULT_MODEL_ID == 0
DefaultModelName == <<"d", "e", "f", "a", "u", "l", "t", "-", "m", "o", "d", "e", "l">>
GetDatetime == <<"g", "e", "t", "_", "d", "a", "t", "e", "t", "i", "m", "e">>
SearchKnowledgeBase ==
    <<"s", "e", "a", "r", "c", "h", "_", "k", "n", "o", "w", "l", "e", "d", "g", "e",
      "_", "b", "a", "s", "e">>
NoSuchTool == <<"n", "o", "_", "s", "u", "c", "h", "_", "t", "o", "o", "l">>

BUILTIN_TOOL_NAMES == <<GetDatetime, SearchKnowledgeBase>>
ALLOWED_MODEL_PARAMS ==
    {"temperature", "max_tokens", "top_p", "stop", "presence_penalty", "frequency_penalty"}

\* RagSettings(): enabled, top_k
DefaultRag == [enabled |-> TRUE, top_k |-> 3]

\* a dict is the set of its <<key, value>> items
SafeParams(params) == {kv \in params : kv[1] \in ALLOWED_MODEL_PARAMS}

VersionRow(enabled, rag, tool_list, base, params) ==
    [enabled |-> enabled, rag_settings |-> rag, tool_names |-> tool_list,
     base_model |-> base, model_params |-> params]

ModelRow(name, version, enabled, rag, tool_list, base, params, active, versions) ==
    [name |-> name, version |-> version, enabled |-> enabled, rag_settings |-> rag,
     tool_names |-> tool_list, base_model |-> base, model_params |-> params,
     active_versions |-> active, versions |-> versions]

\* model.version_history of _db_to_pydantic_model: the keys of the versions rows
version_history(m) == DOMAIN m.versions

Put(f, k, v) == [x \in DOMAIN f \cup {k} |-> IF x = k THEN v ELSE f[x]]
Drop(f, k) == [x \in DOMAIN f \ {k} |-> f[x]]

\* _create_default_model_db
DefaultModel ==
    ModelRow(DefaultModelName, Ver(1, 0, 0), TRUE, DefaultRag, BUILTIN_TOOL_NAMES,
             None, {}, <<Ver(1, 0, 0)>>,
             Put(<<>>, Ver(1, 0, 0),
                 VersionRow(TRUE, DefaultRag, BUILTIN_TOOL_NAMES, None, {})))

\* A JSON column holds a plain list. The handlers load it, change the loaded
\* list in place (append / remove) and assign the same object back; the unit
\* of work compares the assigned value with the loaded one, finds the same
\* object, and writes nothing. Only `db_model.active_versions or []` on an
\* empty stored list makes a new object, which is written.
JsonListCommit(loaded, mutated) == IF loaded = <<>> THEN mutated ELSE loaded

Outcome(status, reason) == [status |-> status, reason |-> reason]
Ok == Outcome("ok", "")

\* the rows a name lookup  CustomModelDB.name.ilike(name)  selects
NameMatches(db, name) == {id \in DOMAIN db : ILike(db[id].name, name)}

\* variant: the update is also written into the row of the current version
UpdateModelRow_SyncsVersion(model, avail, name, enabled, rag, tool_names, base, params, version) ==
    [model EXCEPT
        !.name = IF IsNone(name) THEN @ ELSE Val(validate_model_name(Val(name))),
        !.version = IF IsNone(version) THEN @ ELSE Val(validate_version(Val(version))),
        !.enabled = IF IsNone(enabled) THEN @ ELSE Val(enabled),
        !.rag_settings = IF IsNone(rag) THEN @ ELSE Val(rag),
        !.tool_names = IF IsNone(tool_names) THEN @
                       ELSE FilterSeq(Val(tool_names), Range(avail)),
        !.base_model = IF IsNone(base) THEN @
                       ELSE IF Val(base) = "" THEN None ELSE base,
        !.model_params = IF IsNone(params) THEN @ ELSE SafeParams(Val(params)),
        !.versions = [v \in DOMAIN model.versions |->
                         IF v = model.version /\ ~IsNone(rag)
                         THEN [model.versions[v] EXCEPT !.rag_settings = Val(rag)]
                         ELSE model.versions[v]]]

---------------------------------------------------------------------------
(* ConfigStore: what each handler decides and what it commits *)

\* create_model, up to the tool check: the outcome before anything is written
CreateModelCheck(db, avail, name, version, tool_names) ==
    LET vn == validate_model_name(name)
        vv == validate_version(version)
        tool_list == IF IsNone(tool_names) THEN avail ELSE Val(tool_names)
    IN  IF IsNone(vn) THEN Outcome("ValueError", "name")
        ELSE IF IsNone(vv) THEN Outcome("ValueError", "version")
        ELSE IF Cardinality(NameMatches(db, Val(vn))) > 1
             THEN Outcome("MultipleResultsFound", "name lookup")
        ELSE IF NameMatches(db, Val(vn)) # {} THEN Outcome("ValueError", "duplicate")
        ELSE IF FilterSeq(tool_list, Range(avail)) = <<>> THEN Outcome("ValueError", "tools")
        ELSE Ok

\* the rows create_model adds
CreateModelRow(avail, name, enabled, rag, tool_names, base, params, version) ==
    LET tool_list == IF IsNone(tool_names) THEN avail ELSE Val(tool_names)
        validated_tools == FilterSeq(tool_list, Range(avail))
        settings == IF IsNone(rag) THEN DefaultRag ELSE Val(rag)
        safe_params == IF IsNone(params) \/ Val(params) = {} THEN {}
                       ELSE SafeParams(Val(params))
        vv == Val(validate_version(version))
    IN  ModelRow(Val(validate_model_name(name)), vv, enabled, settings,
                 validated_tools, base, safe_params, <<vv>>,
                 Put(<<>>, vv, VersionRow(enabled, settings, validated_tools,
                                          base, safe_params)))

\* create_model_version: the outcome before anything is written
CreateVersionCheck(db, avail, id, version, tool_names) ==
    IF id \notin DOMAIN db THEN Outcome("KeyError", "model")
    ELSE LET model == db[id]
             vv == validate_version(version)
             tool_list == IF IsNone(tool_names) THEN model.tool_names ELSE Val(tool_names)
         IN  IF IsNone(vv) THEN Outcome("ValueError", "version")
             ELSE IF Val(vv) \in version_history(model)
                  THEN Outcome("ValueError", "version exists")
             ELSE IF compare_versions(Val(vv), model.version) <= 0
                  THEN Outcome("ValueError", "not greater")
             ELSE IF FilterSeq(tool_list, Range(avail)) = <<>>
                  THEN Outcome("ValueError", "tools")
             ELSE Ok

\* create_model_version: the model row and the new version row it commits
CreateVersionRow(model, avail, version, enabled, rag, tool_names, base, params) ==
    LET vv == Val(validate_version(version))
        tool_list == IF IsNone(tool_names) THEN model.tool_names ELSE Val(tool_names)
        validated_tools == FilterSeq(tool_list, Range(avail))
        settings == IF IsNone(rag) THEN model.rag_settings ELSE Val(rag)
        b == IF IsNone(base) THEN model.base_model ELSE base
        safe_params == IF IsNone(params) THEN model.model_params
                       ELSE SafeParams(Val(params))
        loaded == model.active_versions
        appended == IF vv \in Range(loaded) THEN loaded ELSE Append(loaded, vv)
    IN  ModelRow(model.name, vv, enabled, settings, validated_tools, b, safe_params,
                 JsonListCommit(loaded, appended),
                 Put(model.versions, vv,
                     VersionRow(enabled, settings, validated_tools, b, safe_params)))

\* activate_model_version / deactivate_model_version: model and version lookup
VersionLookup(db, id, version) ==
    IF id \notin DOMAIN db THEN Outcome("KeyError", "model")
    ELSE IF IsNone(validate_version(version)) THEN Outcome("ValueError", "version")
    ELSE IF Val(validate_version(version)) \notin version_history(db[id])
         THEN Outcome("KeyError", "version")
    ELSE Ok

\* activate_model_version: the model row it commits
\* variant: the version is appended to a new list without the membership test
ActivateVersionRow_AppendsAnyway(model, v) ==
    [model EXCEPT !.active_versions = Append(model.active_versions, v),
                  !.versions[v].enabled = TRUE]

ActivateVersionRow(model, v) ==
    LET loaded == model.active_versions
        appended == IF v \in Range(loaded) THEN loaded ELSE Append(loaded, v)
    IN  [model EXCEPT !.active_versions = JsonListCommit(loaded, appended),
                      !.versions[v].enabled = TRUE]

\* mutant: the guard that protects the only active version is left out
IsOnlyActiveVersion_NoGuard(model, v) == FALSE

\* deactivate_model_version: the only active version cannot be deactivated
IsOnlyActiveVersion(model, v) ==
    Len(model.active_versions) = 1 /\ v \in Range(model.active_versions)

DeactivateVersionCheck(db, id, version) ==
    IF VersionLookup(db, id, version) # Ok THEN VersionLookup(db, id, version)
    ELSE IF IsOnlyActiveVersion(db[id], Val(validate_version(version)))
         THEN Outcome("ValueError", "only active version")
    ELSE Ok

\* list.remove(v): drops the first occurrence
RECURSIVE RemoveFirst(_, _)
RemoveFirst(s, v) ==
    IF s = <<>> THEN <<>>
    ELSE IF Head(s) = v THEN Tail(s)
    ELSE <<Head(s)>> \o RemoveFirst(Tail(s), v)

\* deactivate_model_version: the model row it commits
DeactivateVersionRow(model, v) ==
    LET loaded == model.active_versions
        removed == IF v \in Range(loaded) THEN RemoveFirst(loaded, v) ELSE loaded
    IN  [model EXCEPT !.active_versions = JsonListCommit(loaded, removed),
                      !.versions[v].enabled = FALSE]

\* the smallest priority among the active_models rows, None when there are none
MinPriority(act) ==
    IF DOMAIN act = {} THEN None
    ELSE Some(CHOOSE p \in {act[i] : i \in DOMAIN act} :
                  \A i \in DOMAIN act : p <= act[i])

\* variant: a model that is active already keeps the row it has
ActivateModelRows_KeepsPlace(act, id) ==
    IF id \in DOMAIN act THEN act
    ELSE LET min_priority == MinPriority(act)
         IN  Put(act, id, IF IsNone(min_priority) THEN 0 ELSE Val(min_priority) - 1)

\* activate_model: the active_models rows it commits
\* variant: the activated model takes the lowest priority in use, not one below
ActivateModelRows_SamePriority(act, id) ==
    LET rest == Drop(act, id)
        min_priority == MinPriority(rest)
    IN  Put(rest, id, IF IsNone(min_priority) THEN 0 ELSE Val(min_priority))

ActivateModelRows(act, id) ==
    LET rest == Drop(act, id)
        min_priority == MinPriority(rest)
        new_priority == IF IsNone(min_priority) THEN 0 ELSE Val(min_priority) - 1
    IN  Put(rest, id, new_priority)

\* mutant: the count of active models is not looked at
RemoveActiveCheck_NoCount(db, act, id) ==
    IF id \notin DOMAIN db THEN Outcome("KeyError", "model")
    ELSE IF id \notin DOMAIN act THEN Outcome("ValueError", "not active")
    ELSE Ok

\* remove_active_model: the outcome before anything is written
RemoveActiveCheck(db, act, id) ==
    IF id \notin DOMAIN db THEN Outcome("KeyError", "model")
    ELSE IF id \notin DOMAIN act THEN Outcome("ValueError", "not active")
    ELSE IF Cardinality(DOMAIN act) = 1 THEN Outcome("ValueError", "only active model")
    ELSE Ok

\* variant: delete_model does not look at the active model set
DeleteModelCheck_NoCount(db, act, id) ==
    IF id \notin DOMAIN db THEN Outcome("KeyError", "model") ELSE Ok

\* delete_model: the outcome before anything is written
DeleteModelCheck(db, act, id) ==
    IF id \notin DOMAIN db THEN Outcome("KeyError", "model")
    ELSE IF id \in DOMAIN act /\ Cardinality(DOMAIN act) = 1
         THEN Outcome("ValueError", "only active model")
    ELSE Ok

\* update_model: the outcome before the commit
UpdateModelCheck(db, avail, id, name, tool_names, version) ==
    IF id \notin DOMAIN db THEN Outcome("KeyError", "model")
    ELSE LET others == IF IsNone(name) \/ IsNone(validate_model_name(Val(name))) THEN {}
                       ELSE NameMatches(db, Val(validate_model_name(Val(name)))) \ {id}
         IN  IF ~IsNone(name) /\ IsNone(validate_model_name(Val(name)))
                  THEN Outcome("ValueError", "name")
             ELSE IF Cardinality(others) > 1
                  THEN Outcome("MultipleResultsFound", "name lookup")
             ELSE IF others # {} THEN Outcome("ValueError", "duplicate")
             ELSE IF ~IsNone(version) /\ IsNone(validate_version(Val(version)))
                  THEN Outcome("ValueError", "version")
             ELSE IF ~IsNone(tool_names) /\ FilterSeq(Val(tool_names), Range(avail)) = <<>>
                  THEN Outcome("ValueError", "tools")
             ELSE Ok

\* update_model: the model row it commits; only the given fields change
UpdateModelRow(model, avail, name, enabled, rag, tool_names, base, params, version) ==
    [model EXCEPT
        !.name = IF IsNone(name) THEN @ ELSE Val(validate_model_name(Val(name))),
        !.version = IF IsNone(version) THEN @ ELSE Val(validate_version(Val(version))),
        !.enabled = IF IsNone(enabled) THEN @ ELSE Val(enabled),
        !.rag_settings = IF IsNone(rag) THEN @ ELSE Val(rag),
        !.tool_names = IF IsNone(tool_names) THEN @
                       ELSE FilterSeq(Val(tool_names), Range(avail)),
        !.base_model = IF IsNone(base) THEN @
                       ELSE IF Val(base) = "" THEN None ELSE base,
        !.model_params = IF IsNone(params) THEN @ ELSE SafeParams(Val(params))]

---------------------------------------------------------------------------
(* The tool registry: ToolStore on the tools table *)

\* fixed ids of the built-in rows, and the ids uuid4().hex[:8] hands out
GetDatetimeId == <<"c", "9", "d", "0", "e", "1", "f", "2">>
SearchKnowledgeBaseId == <<"f", "3", "a", "4", "b", "5", "c", "6">>
NewToolId(k) == <<"0", "0", "0", "0", "0", "0", "0", DigitChars[k + 1]>>

\* Source text is a sequence of lines, a line one string of the vocabulary below
BlankLines == {" "}
SyntaxErrorLines == {"def f(:"}

\* str.lower() on one line
LowerLine(l) ==
    IF l = "IMPORT OS" THEN "import os"
    ELSE IF l = "def F(x):" THEN "def f(x):"
    ELSE l

\* the lines that hold one of the dangerous_patterns as a substring
DangerousLines == {"import os", "return eval(x)", "return open(x)"}

\* ast: the argument list of a def line, in order: the name, the annotation
\* (a Name node's id, None when there is none) and whether the argument comes
\* after a bare * and so sits in args.kwonlyargs instead of args.args
Arg(name, annotation, kwonly) ==
    [name |-> name, annotation |-> annotation, kwonly |-> kwonly]

Arguments(l) ==
    IF l \in {"def f(x):", "def F(x):"} THEN <<Arg(<<"x">>, None, FALSE)>>
    ELSE IF l = "def f(_x):" THEN <<Arg(<<"_", "x">>, None, FALSE)>>
    ELSE IF l = "def f(n: int):"
    THEN <<Arg(<<"n">>, Some(<<"i", "n", "t">>), FALSE)>>
    ELSE IF l = "def f(a: float, b: bool):"
    THEN <<Arg(<<"a">>, Some(<<"f", "l", "o", "a", "t">>), FALSE),
           Arg(<<"b">>, Some(<<"b", "o", "o", "l">>), FALSE)>>
    ELSE IF l = "def f(c: list, d: dict, s: str):"
    THEN <<Arg(<<"c">>, Some(<<"l", "i", "s", "t">>), FALSE),
           Arg(<<"d">>, Some(<<"d", "i", "c", "t">>), FALSE),
           Arg(<<"s">>, Some(<<"s", "t", "r">>), FALSE)>>
    ELSE IF l = "def g(y):" THEN <<Arg(<<"y">>, None, FALSE)>>
    ELSE IF l = "def f(x, *, k: int):"
    THEN <<Arg(<<"x">>, None, FALSE),
           Arg(<<"k">>, Some(<<"i", "n", "t">>), TRUE)>>
    ELSE <<>>

\* node.args.args: the arguments that are not keyword-only
PositionalArgs(l) == SelectSeq(Arguments(l), LAMBDA a : ~a.kwonly)

\* ast: the arguments of the first function the text defines
DefArgs(l) == [i \in 1..Len(PositionalArgs(l)) |-> PositionalArgs(l)[i].name]

IsDefLine(l) ==
    l \in {"def f():", "def f(x):", "def F(x):", "def f(_x):", "def f(n: int):",
           "def f(a: float, b: bool):", "def f(c: list, d: dict, s: str):",
           "def g(y):", "def f(x, *, k: int):", "def ta():", "def main():",
           "def run():", "def execute():", "def helper():", "def _private():"}

\* ast: the name a def line binds
FunctionName(l) ==
    IF l = "def ta():" THEN <<"t", "a">>
    ELSE IF l = "def main():" THEN <<"m", "a", "i", "n">>
    ELSE IF l = "def run():" THEN <<"r", "u", "n">>
    ELSE IF l = "def execute():" THEN <<"e", "x", "e", "c", "u", "t", "e">>
    ELSE IF l = "def helper():" THEN <<"h", "e", "l", "p", "e", "r">>
    ELSE IF l = "def _private():" THEN <<"_", "p", "r", "i", "v", "a", "t", "e">>
    ELSE IF l = "def F(x):" THEN <<"F">>
    ELSE IF l = "def g(y):" THEN <<"g">>
    ELSE <<"f">>

\* truth value of an optional text or list: None and the empty one are false
Truthy(o) == ~IsNone(o) /\ Val(o) # <<>>

\* _validate_function_code: ok, or the ValueError it raises
validate_function_code(code) ==
    IF code = <<>> \/ \A i \in 1..Len(code) : code[i] \in BlankLines
        THEN Outcome("ValueError", "empty code")
    ELSE IF \E i \in 1..Len(code) : code[i] \in SyntaxErrorLines
        THEN Outcome("ValueError", "syntax")
    ELSE IF \E i \in 1..Len(code) : LowerLine(code[i]) \in DangerousLines
        THEN Outcome("ValueError", "dangerous")
    ELSE Ok

ToolRow(name, description, enabled, config, function_code, parameters) ==
    [name |-> name, description |-> description, enabled |-> enabled,
     config |-> config, function_code |-> function_code, parameters |-> parameters]

\* Tool.is_builtin as _db_to_pydantic sets it: config.get("is_builtin", False)
is_builtin(row) == <<"is_builtin", TRUE>> \in row.config

\* _sync_builtin_tools on an empty table
BuiltinRows ==
    Put(Put(<<>>, GetDatetimeId,
            ToolRow(GetDatetime, "builtin", TRUE, {<<"is_builtin", TRUE>>}, None, None)),
        SearchKnowledgeBaseId,
        ToolRow(SearchKnowledgeBase, "builtin", TRUE, {<<"is_builtin", TRUE>>}, None, None))

\* a < b for two texts, as ORDER BY compares them
CharRank(c) == CHOOSE i \in 1..Len(Ascii) : Ascii[i] = c

RECURSIVE TextLess(_, _)
TextLess(a, b) ==
    IF b = <<>> THEN FALSE
    ELSE IF a = <<>> THEN TRUE
    ELSE IF Head(a) # Head(b) THEN CharRank(Head(a)) < CharRank(Head(b))
    ELSE TextLess(Tail(a), Tail(b))

\* list_tools: the ids of the rows, ORDER BY name
RECURSIVE OrderByName(_, _)
OrderByName(reg, ids) ==
    IF ids = {} THEN <<>>
    ELSE LET first == CHOOSE i \in ids :
                          \A j \in ids \ {i} : ~TextLess(reg[j].name, reg[i].name)
         IN  <<first>> \o OrderByName(reg, ids \ {first})

list_tools(reg) == OrderByName(reg, DOMAIN reg)

\* _update_available_tools: the names of the enabled rows, in list_tools order
RECURSIVE EnabledNames(_, _)
EnabledNames(reg, ids) ==
    IF ids = <<>> THEN <<>>
    ELSE IF reg[Head(ids)].enabled
         THEN <<reg[Head(ids)].name>> \o EnabledNames(reg, Tail(ids))
         ELSE EnabledNames(reg, Tail(ids))

\* the names of all the rows, enabled or not
update_available_tools_all(reg) ==
    [i \in 1..Len(list_tools(reg)) |-> reg[list_tools(reg)[i]].name]

update_available_tools(reg) == EnabledNames(reg, list_tools(reg))

\* get_tool: the rows whose id or name is the key
get_tool(reg, key) == {id \in DOMAIN reg : id = key \/ reg[id].name = key}

\* a commit that leaves two rows with one name breaks the unique index
UniqueNames(reg) == \A i, j \in DOMAIN reg : i # j => reg[i].name # reg[j].name

\* create_tool: the outcome before the insert
CreateToolCheck(reg, name, function_code) ==
    IF name = <<>> \/ ~MatchesNamePattern(name) THEN Outcome("ValueError", "name")
    ELSE IF Cardinality(get_tool(reg, name)) > 1
         THEN Outcome("MultipleResultsFound", "tool lookup")
    ELSE IF get_tool(reg, name) # {} THEN Outcome("ValueError", "exists")
    ELSE IF Truthy(function_code) /\ validate_function_code(Val(function_code)) # Ok
         THEN validate_function_code(Val(function_code))
    ELSE Ok

CreateToolRow(name, description, enabled, config, function_code, parameters) ==
    ToolRow(name, description, enabled,
            IF IsNone(config) THEN {} ELSE Val(config),
            function_code, parameters)

\* update_tool: the outcome before the session is opened
UpdateToolCheck(reg, key, name, function_code) ==
    IF get_tool(reg, key) = {} THEN Outcome("KeyError", "tool")
    ELSE IF Cardinality(get_tool(reg, key)) > 1
         THEN Outcome("MultipleResultsFound", "tool lookup")
    ELSE LET tool == reg[CHOOSE id \in get_tool(reg, key) : TRUE] IN
         IF is_builtin(tool) /\ Truthy(name) /\ Val(name) # tool.name
             THEN Outcome("ValueError", "rename builtin")
         ELSE IF is_builtin(tool) /\ ~IsNone(function_code)
             THEN Outcome("ValueError", "code of builtin")
         ELSE IF Truthy(name) /\ ~MatchesNamePattern(Val(name))
             THEN Outcome("ValueError", "name")
         ELSE IF Truthy(name) /\ Val(name) # tool.name
                     /\ Cardinality(get_tool(reg, Val(name))) > 1
             THEN Outcome("MultipleResultsFound", "tool lookup")
         ELSE IF Truthy(name) /\ Val(name) # tool.name /\ get_tool(reg, Val(name)) # {}
             THEN Outcome("ValueError", "exists")
         ELSE IF Truthy(function_code) /\ validate_function_code(Val(function_code)) # Ok
             THEN validate_function_code(Val(function_code))
         ELSE Ok

\* update_tool: every argument that is not None overwrites its column
UpdateToolRow(row, name, description, enabled, config, function_code, parameters) ==
    ToolRow(IF IsNone(name) THEN row.name ELSE Val(name),
            IF IsNone(description) THEN row.description ELSE Val(description),
            IF IsNone(enabled) THEN row.enabled ELSE Val(enabled),
            IF IsNone(config) THEN row.config ELSE Val(config),
            IF IsNone(function_code) THEN row.function_code ELSE function_code,
            IF IsNone(parameters) THEN row.parameters ELSE parameters)

\* delete_tool: the outcome before the delete
DeleteToolCheck(reg, key) ==
    IF get_tool(reg, key) = {} THEN Outcome("KeyError", "tool")
    ELSE IF Cardinality(get_tool(reg, key)) > 1
         THEN Outcome("MultipleResultsFound", "tool lookup")
    ELSE IF is_builtin(reg[CHOOSE id \in get_tool(reg, key) : TRUE])
         THEN Outcome("ValueError", "delete builtin")
    ELSE Ok

\* get_custom_tools_with_code: the ids of the enabled rows that are not flagged
\* built-in and have source text, in list_tools order
RECURSIVE WithCode(_, _)
WithCode(reg, ids) ==
    IF ids = <<>> THEN <<>>
    ELSE LET t == reg[Head(ids)] IN
         IF Truthy(t.function_code) /\ ~is_builtin(t) /\ t.enabled
         THEN <<t>> \o WithCode(reg, Tail(ids))
         ELSE WithCode(reg, Tail(ids))

get_custom_tools_with_code(reg) == WithCode(reg, list_tools(reg))

---------------------------------------------------------------------------
(* The tool synthesizer and its cache: graph.py *)

\* _create_dynamic_tool: the parameters given, or the ones read off the source
RECURSIVE FirstDefArgs(_)
FirstDefArgs(code) ==
    IF code = <<>> THEN <<>>
    ELSE IF IsDefLine(Head(code)) THEN DefArgs(Head(code))
    ELSE FirstDefArgs(Tail(code))

SynthParameters(config) ==
    IF Truthy(config.parameters) THEN Val(config.parameters)
    ELSE FirstDefArgs(Val(config.function_code))

\* pydantic.create_model refuses a field whose name starts with an underscore
SynthRaises(config) ==
    \E i \in 1..Len(SynthParameters(config)) :
        SynthParameters(config)[i] # <<>> /\ SynthParameters(config)[i][1] = "_"

\* the StructuredTool that _create_dynamic_tool returns: what it was built from
Executor(config) ==
    [name |-> config.name, description |-> config.description,
     function_code |-> Val(config.function_code),
     parameters |-> SynthParameters(config)]

\* the first loop of _get_custom_tools from the i-th config on: the cache it
\* leaves, and whether _create_dynamic_tool raised on the way
RECURSIVE InsertNew(_, _, _)
InsertNew(c, configs, i) ==
    IF i > Len(configs) THEN [cache |-> c, raised |-> FALSE]
    ELSE IF configs[i].name \in DOMAIN c THEN InsertNew(c, configs, i + 1)
    ELSE IF SynthRaises(configs[i]) THEN [cache |-> c, raised |-> TRUE]
    ELSE InsertNew(Put(c, configs[i].name, Executor(configs[i])), configs, i + 1)

ConfigNames(configs) == {configs[i].name : i \in 1..Len(configs)}

\* the second loop of _get_custom_tools: names not among the configs are deleted
EvictStale(c, configs) == [n \in DOMAIN c \cap ConfigNames(configs) |-> c[n]]

\* _get_custom_tools run on cache c against the registry reg
Reconciled(c, reg) ==
    LET configs == get_custom_tools_with_code(reg)
        filled == InsertNew(c, configs, 1)
    IN  IF filled.raised THEN filled
        ELSE [cache |-> EvictStale(filled.cache, configs), raised |-> FALSE]

---------------------------------------------------------------------------
(* The calls, one action each *)

\* the last call: what was asked (operation, model id, version) and how it ended
Call(op, id, version, out) ==
    [op |-> op, id |-> id, version |-> version,
     status |-> out.status, reason |-> out.reason]

NoId == -1

\* the name as the store compares and keeps it; <<>> when it is rejected
Normalised(name) ==
    IF IsNone(validate_model_name(name)) THEN <<>> ELSE Val(validate_model_name(name))

\* uuid4().hex[:8]: an id no model has
FreshIds == {id \in 1..MaxModels : id \notin DOMAIN models}

create_model(name, enabled, cfg, version) ==
    LET out == CreateModelCheck(models, available, name, version, cfg.tools) IN
    /\ IF out = Ok
       THEN \E new_id \in FreshIds :
               /\ models' = Put(models, new_id,
                                CreateModelRow(available, name, enabled, cfg.rag,
                                               cfg.tools, cfg.base, cfg.params, version))
               /\ last' = Call("create_model", new_id, version, out)
       ELSE /\ models' = models
            /\ last' = Call("create_model", NoId, version, out)
    /\ UNCHANGED <<active_models, toolVars, clock, runVars>>

create_model_version(id, version, enabled, cfg) ==
    LET out == CreateVersionCheck(models, available, id, version, cfg.tools) IN
    /\ models' = IF out = Ok
                 THEN [models EXCEPT ![id] =
                          CreateVersionRow(models[id], available, version, enabled,
                                           cfg.rag, cfg.tools, cfg.base, cfg.params)]
                 ELSE models
    /\ last' = Call("create_version", id, version, out)
    /\ UNCHANGED <<active_models, toolVars, clock, runVars>>

activate_model_version(id, version) ==
    LET out == VersionLookup(models, id, version) IN
    /\ models' = IF out = Ok
                 THEN [models EXCEPT ![id] = ActivateVersionRow(models[id], version)]
                 ELSE models
    /\ last' = Call("activate_version", id, version, out)
    /\ UNCHANGED <<active_models, toolVars, clock, runVars>>

deactivate_model_version(id, version) ==
    LET out == DeactivateVersionCheck(models, id, version) IN
    /\ models' = IF out = Ok
                 THEN [models EXCEPT ![id] = DeactivateVersionRow(models[id], version)]
                 ELSE models
    /\ last' = Call("deactivate_version", id, version, out)
    /\ UNCHANGED <<active_models, toolVars, clock, runVars>>

activate_model(id) ==
    LET out == IF id \in DOMAIN models THEN Ok ELSE Outcome("KeyError", "model") IN
    /\ active_models' = IF out = Ok THEN ActivateModelRows(active_models, id)
                        ELSE active_models
    /\ last' = Call("activate_model", id, None, out)
    /\ UNCHANGED <<models, toolVars, clock, runVars>>

remove_active_model(id) ==
    LET out == RemoveActiveCheck(models, active_models, id) IN
    /\ active_models' = IF out = Ok THEN Drop(active_models, id) ELSE active_models
    /\ last' = Call("remove_active_model", id, None, out)
    /\ UNCHANGED <<models, toolVars, clock, runVars>>

update_model(id, name, enabled, cfg, version) ==
    LET out == UpdateModelCheck(models, available, id, name, cfg.tools, version) IN
    /\ models' = IF out = Ok
                 THEN [models EXCEPT ![id] =
                          UpdateModelRow(models[id], available, name, enabled, cfg.rag,
                                         cfg.tools, cfg.base, cfg.params, version)]
                 ELSE models
    /\ last' = Call("update_model", id, version, out)
    /\ UNCHANGED <<active_models, toolVars, clock, runVars>>

delete_model(id) ==
    LET out == DeleteModelCheck(models, active_models, id) IN
    /\ models' = IF out = Ok THEN Drop(models, id) ELSE models
    /\ active_models' = IF out = Ok THEN Drop(active_models, id) ELSE active_models
    /\ last' = Call("delete_model", id, None, out)
    /\ UNCHANGED <<toolVars, clock, runVars>>

\* uuid4().hex[:8]: an id no tool has
FreshToolIds == {NewToolId(k) : k \in 1..MaxTools} \ DOMAIN tools

create_tool(name, description, enabled, config, function_code, parameters) ==
    LET out == CreateToolCheck(tools, name, function_code) IN
    /\ IF out = Ok
       THEN \E new_id \in FreshToolIds :
              /\ tools' = Put(tools, new_id,
                              CreateToolRow(name, description, enabled, config,
                                            function_code, parameters))
              /\ last' = Call("create_tool", new_id, None, out)
              /\ clock' = clock + 1
       ELSE /\ tools' = tools
            /\ last' = Call("create_tool", name, None, out)
            /\ clock' = clock
    /\ available' = update_available_tools(tools')
    /\ UNCHANGED <<cfgVars, cache, runVars>>

update_tool(key, name, description, enabled, config, function_code, parameters) ==
    LET checked == UpdateToolCheck(tools, key, name, function_code)
        id == CHOOSE i \in get_tool(tools, key) : TRUE
        written == [tools EXCEPT ![id] =
                        UpdateToolRow(tools[id], name, description, enabled, config,
                                      function_code, parameters)]
        out == IF checked = Ok /\ ~UniqueNames(written)
               THEN Outcome("IntegrityError", "tools.name") ELSE checked
    IN
    /\ tools' = IF out = Ok THEN written ELSE tools
    /\ clock' = IF out = Ok THEN clock + 1 ELSE clock
    /\ available' = IF out = Ok THEN update_available_tools(tools') ELSE available
    /\ last' = Call("update_tool", key, None, out)
    /\ UNCHANGED <<cfgVars, cache, runVars>>

delete_tool(key) ==
    LET out == DeleteToolCheck(tools, key)
        id == CHOOSE i \in get_tool(tools, key) : TRUE
    IN
    /\ tools' = IF out = Ok THEN Drop(tools, id) ELSE tools
    /\ clock' = IF out = Ok THEN clock + 1 ELSE clock
    /\ available' = IF out = Ok THEN update_available_tools(tools') ELSE available
    /\ last' = Call("delete_tool", key, None, out)
    /\ UNCHANGED <<cfgVars, cache, runVars>>

\* _get_custom_tools, run by one thread with no other thread in it
get_custom_tools ==
    LET r == Reconciled(cache, tools) IN
    /\ cache' = r.cache
    /\ last' = Call("get_custom_tools", None, None,
                    IF r.raised THEN Outcome("NameError", "synthesis") ELSE Ok)
    /\ UNCHANGED <<cfgVars, tools, available, clock, runVars>>

\* reload_custom_tools, run by one thread with no other thread in it
reload_custom_tools ==
    LET r == Reconciled(<<>>, tools) IN
    /\ cache' = r.cache
    /\ last' = Call("reload_custom_tools", None, None,
                    IF r.raised THEN Outcome("NameError", "synthesis") ELSE Ok)
    /\ UNCHANGED <<cfgVars, tools, available, clock, runVars>>

---------------------------------------------------------------------------
(* Identifiers and the request resolver *)

\* the id column as text: the fixed default id, and uuid4().hex[:8] ids
ModelIdText(id) ==
    IF id = DEFAULT_MODEL_ID THEN <<"a", "1", "b", "2", "c", "3", "d", "4">>
    ELSE <<"0", "0", "0", "0", "0", "0", "0", DigitChars[id + 1]>>

\* An identifier is the sequence of its pieces between "@" signs, the first
\* a text and the second a version text. parse_model_identifier splits at the
\* first "@": (name, version), the version None when there is no "@"
parse_model_identifier(identifier) ==
    IF Len(identifier) > 1 THEN <<identifier[1], Some(identifier[2])>>
    ELSE <<identifier[1], None>>

\* get_model: the rows with the id
get_model(db, id_text) == {id \in DOMAIN db : ModelIdText(id) = id_text}

\* what a lookup returns: a model with or without a version configuration,
\* nothing, or the MultipleResultsFound of scalar_one_or_none
Resolved(id, config) == [status |-> "resolved", id |-> id, config |-> config]
Unresolved == [status |-> "unresolved", id |-> NoId, config |-> None]
LookupRaised == [status |-> "MultipleResultsFound", id |-> NoId, config |-> None]

\* get_model_by_name_and_version
get_model_by_name_and_version(db, name, version) ==
    LET found == NameMatches(db, name) IN
    IF Cardinality(found) > 1 THEN LookupRaised
    ELSE IF found = {} THEN Unresolved
    ELSE LET id == CHOOSE i \in found : TRUE
             model == db[id]
         IN  IF version \in version_history(model)
                 THEN Resolved(id, Some(model.versions[version]))
             ELSE IF version = model.version
                 THEN Resolved(id, Some(VersionRow(model.enabled, model.rag_settings,
                                                   model.tool_names, model.base_model,
                                                   model.model_params)))
             ELSE Unresolved

\* resolve_model_identifier: by name, then by id, then the version if one is asked
resolve_model_identifier(db, identifier) ==
    LET name == parse_model_identifier(identifier)[1]
        version == parse_model_identifier(identifier)[2]
        by_name == NameMatches(db, name)
        by_id == get_model(db, identifier[1])
    IN  IF Cardinality(by_name) > 1 THEN LookupRaised
        ELSE IF by_name = {} /\ by_id = {} THEN Unresolved
        ELSE LET id == CHOOSE i \in (IF by_name # {} THEN by_name ELSE by_id) : TRUE
             IN  IF Truthy(version)
                 THEN get_model_by_name_and_version(db, db[id].name, Val(version))
                 ELSE Resolved(id, None)

\* what a request ends in: served by a model, served by the default backend
\* with no custom configuration, or failed
Served(id) == [status |-> "ok", reason |-> "model", id |-> id, active |-> <<>>]
ServedByDefault == [status |-> "ok", reason |-> "default", id |-> NoId, active |-> <<>>]
Failed(status, reason, active) ==
    [status |-> status, reason |-> reason, id |-> NoId, active |-> active]

\* variant: the lookup by id that follows a failed resolution serves the model
\* it finds whether or not the model is enabled
ResolveModelConfig_DirectUnchecked(db, request_model) ==
    LET model_name == parse_model_identifier(request_model)[1]
        requested_version == parse_model_identifier(request_model)[2]
        result == resolve_model_identifier(db, request_model)
        direct == get_model(db, model_name)
    IN  IF result.status = "MultipleResultsFound"
            THEN Failed("MultipleResultsFound", "lookup", <<>>)
        ELSE IF result.status = "resolved"
            THEN LET model == db[result.id] IN
                 IF ~model.enabled THEN Failed("HTTPException", "disabled", <<>>)
                 ELSE IF /\ Truthy(requested_version)
                         /\ ~IsNone(result.config)
                         /\ Val(requested_version) \notin Range(model.active_versions)
                     THEN Failed("HTTPException", "inactive", model.active_versions)
                 ELSE Served(result.id)
        ELSE IF direct # {}
            THEN Served(CHOOSE i \in direct : TRUE)
        ELSE ServedByDefault

\* _resolve_model_config
ResolveModelConfig(db, request_model) ==
    LET model_name == parse_model_identifier(request_model)[1]
        requested_version == parse_model_identifier(request_model)[2]
        result == resolve_model_identifier(db, request_model)
        direct == get_model(db, model_name)
    IN  IF result.status = "MultipleResultsFound"
            THEN Failed("MultipleResultsFound", "lookup", <<>>)
        ELSE IF result.status = "resolved"
            THEN LET model == db[result.id] IN
                 IF ~model.enabled THEN Failed("HTTPException", "disabled", <<>>)
                 ELSE IF /\ Truthy(requested_version)
                         /\ ~IsNone(result.config)
                         /\ Val(requested_version) \notin Range(model.active_versions)
                     THEN Failed("HTTPException", "inactive", model.active_versions)
                 ELSE Served(result.id)
        ELSE IF direct # {}
            THEN LET id == CHOOSE i \in direct : TRUE IN
                 IF ~db[id].enabled THEN Failed("HTTPException", "disabled", <<>>)
                 ELSE Served(id)
        ELSE ServedByDefault

\* a chat request names its model: the resolver reads the store and changes
\* nothing; the call record keeps the identifier and how the request ended
resolve_model_config(request_model) ==
    /\ last' = [op |-> "resolve", id |-> ResolveModelConfig(models, request_model).id,
                version |-> request_model,
                status |-> ResolveModelConfig(models, request_model).status,
                reason |-> ResolveModelConfig(models, request_model).reason]
    /\ UNCHANGED <<cfgVars, toolVars, clock, runVars>>

---------------------------------------------------------------------------
(* The tools of a request: graph.get_active_tools *)

\* BUILTIN_TOOLS of graph.py: the compiled tools by name
CompiledTool(name) == [name |-> name, compiled |-> TRUE]
CompiledTools ==
    Put(Put(<<>>, GetDatetime, CompiledTool(GetDatetime)),
        SearchKnowledgeBase, CompiledTool(SearchKnowledgeBase))

\* get_all_registered_tools: dict(BUILTIN_TOOLS) updated with the cache
AllRegisteredTools(c) ==
    [n \in DOMAIN CompiledTools \cup DOMAIN c |->
        IF n \in DOMAIN c THEN c[n] ELSE CompiledTools[n]]

\* active_model_id: the active_models row of least priority; with no row any
\* one model row, and with no model the default id
ActiveModelId(db, act) ==
    IF DOMAIN act # {}
    THEN CHOOSE i \in DOMAIN act : \A j \in DOMAIN act : act[i] <= act[j]
    ELSE IF DOMAIN db # {} THEN CHOOSE i \in DOMAIN db : TRUE
    ELSE DEFAULT_MODEL_ID

\* _get_model_for_request: the model of the id, else the active model
ModelForRequest(db, act, model_id) ==
    IF Truthy(model_id) /\ get_model(db, Val(model_id)) # {}
    THEN db[CHOOSE i \in get_model(db, Val(model_id)) : TRUE]
    ELSE db[ActiveModelId(db, act)]

\* [all_tools[name] for name in active_tool_names if name in all_tools]
RECURSIVE ActiveTools(_, _)
ActiveTools(names, all_tools) ==
    IF names = <<>> THEN <<>>
    ELSE IF Head(names) \in DOMAIN all_tools
         THEN <<all_tools[Head(names)]>> \o ActiveTools(Tail(names), all_tools)
         ELSE ActiveTools(Tail(names), all_tools)

\* get_active_tools run by one thread: the reconciliation of the cache is
\* part of it, and an exception of the synthesizer ends it
get_active_tools(model_id) ==
    LET r == Reconciled(cache, tools) IN
    /\ cache' = r.cache
    /\ last' = Call("get_active_tools", model_id, None,
                    IF r.raised THEN Outcome("NameError", "synthesis") ELSE Ok)
    /\ UNCHANGED <<cfgVars, tools, available, clock, runVars>>

---------------------------------------------------------------------------
(* Inputs *)

NameChars == {"a", "A", "_", " "}
NameInputs == UNION {[1..n -> NameChars] : n \in 1..MaxNameLen}

VersionInputs ==
    {Ver(a, b, c) : a \in 0..MaxMajor, b \in 0..MaxMinor, c \in 0..MaxPatch}
        \cup {<< <<1>>, <<0>> >>}

NewIds == 1..MaxModels
IdInputs == {DEFAULT_MODEL_ID} \cup NewIds

AltRag == [enabled |-> FALSE, top_k |-> 3]

NoCfg == [rag |-> None, tools |-> None, base |-> None, params |-> None]

---------------------------------------------------------------------------
(* The store after ConfigStore() and ToolStore() are constructed on an empty
   database: _initialize adds the default model and makes it active *)

InitConfig ==
    /\ models = Put(<<>>, DEFAULT_MODEL_ID, DefaultModel)
    /\ active_models = Put(<<>>, DEFAULT_MODEL_ID, 0)

InitTools ==
    /\ tools = BuiltinRows
    /\ available = update_available_tools(BuiltinRows)
    /\ cache = <<>>

InitRun ==
    /\ clock = 0
    /\ config_store = Some(1)
    /\ locks = <<0>>
    /\ workers = <<>>
    /\ start = <<>>
    /\ llm_cache = <<>>

Init ==
    /\ InitConfig
    /\ InitTools
    /\ InitRun
    /\ last = Call("init", NoId, None, Ok)

\* rows of the model_versions table
RECURSIVE VersionRows(_, _)
VersionRows(db, ids) ==
    IF ids = {} THEN 0
    ELSE LET id == CHOOSE x \in ids : TRUE
         IN  Cardinality(version_history(db[id])) + VersionRows(db, ids \ {id})

\* the version calls stop when the table holds MaxVersions rows
VersionRoom == VersionRows(models, DOMAIN models) < MaxVersions

\* activate_model counts priorities down without end; the model stops it
PriorityRoom ==
    \A i \in DOMAIN active_models : active_models[i] > -MaxPriorityDepth

VersionCfgInputs ==
    {NoCfg,
     [NoCfg EXCEPT !.tools = Some(<<NoSuchTool>>)],
     [rag |-> Some(AltRag), tools |-> Some(<<NoSuchTool, GetDatetime>>),
      base |-> Some("llama3"), params |-> Some({<<"temperature", 1>>, <<"seed", 7>>})]}

OptName == {None} \cup {Some(x) : x \in NameInputs}
OptVersion == {None} \cup {Some(x) : x \in VersionInputs}

\* The version life cycle: models are created under one fixed name each
FixedName == <<"a", "a">>

\* a new model starts at 1.0.0, or is refused for a malformed version
NewModelVersions == {Ver(1, 0, 0), << <<1>>, <<0>> >>}

Next ==
    \/ \E v \in NewModelVersions : create_model(FixedName, TRUE, NoCfg, v)
    \/ \E id \in IdInputs, v \in VersionInputs, c \in VersionCfgInputs :
           VersionRoom /\ create_model_version(id, v, TRUE, c)
    \/ \E id \in IdInputs, v \in VersionInputs : activate_model_version(id, v)
    \/ \E id \in IdInputs, v \in VersionInputs : deactivate_model_version(id, v)
    \/ \E id \in IdInputs, v \in OptVersion : update_model(id, None, None, NoCfg, v)

Spec == Init /\ [][Next]_vars

\* Models and the active model set: names of every shape, one version each
NextModels ==
    \/ \E n \in NameInputs : create_model(n, TRUE, NoCfg, Ver(1, 0, 0))
    \/ \E id \in IdInputs, n \in OptName : update_model(id, n, None, NoCfg, None)
    \/ \E id \in IdInputs : PriorityRoom /\ activate_model(id)
    \/ \E id \in IdInputs : remove_active_model(id)
    \/ \E id \in IdInputs : delete_model(id)

SpecModels == Init /\ [][NextModels]_vars

---------------------------------------------------------------------------
(* The tool registry and the cache, one thread: inputs and next-state relation *)

Ta == <<"t", "a">>
Tb == <<"t", "b">>

Src1 == <<"def f(x):", "return x">>
Src2 == <<"def f(x):", "return 2">>
SrcUnderscore == <<"def f(_x):", "return 2">>
SrcUpperImport == <<"IMPORT OS", "def f():">>
SrcEval == <<"def f(x):", "return eval(x)">>
SrcSyntax == <<"def f(:">>
SrcBlank == <<" ">>

ParamX == << <<"x">> >>
ParamUnderscore == << <<"_", "x">> >>

BuiltinFlag == {<<"is_builtin", TRUE>>}

ToolNameInputs == {Ta, GetDatetime, <<"T", "a">>, <<>>}

NoPatch ==
    [name |-> None, description |-> None, enabled |-> None, config |-> None,
     function_code |-> None, parameters |-> None]

\* what create_tool is given besides the name
CreateToolInputs ==
    {[NoPatch EXCEPT !.function_code = c] :
        c \in {None, Some(<<>>), Some(Src1), Some(SrcUnderscore), Some(SrcUpperImport),
               Some(SrcEval), Some(SrcSyntax), Some(SrcBlank)}}
    \cup {[NoPatch EXCEPT !.function_code = Some(Src1), !.parameters = Some(ParamUnderscore)],
          [NoPatch EXCEPT !.function_code = Some(Src1), !.config = Some(BuiltinFlag)]}

\* what update_tool is given besides the key
UpdateToolInputs ==
    {[NoPatch EXCEPT !.description = Some("edited")],
     [NoPatch EXCEPT !.enabled = Some(FALSE)],
     [NoPatch EXCEPT !.enabled = Some(TRUE)],
     [NoPatch EXCEPT !.config = Some({})],
     [NoPatch EXCEPT !.name = Some(Tb)],
     [NoPatch EXCEPT !.name = Some(<<>>)],
     [NoPatch EXCEPT !.function_code = Some(Src2)],
     [NoPatch EXCEPT !.function_code = Some(<<>>)],
     [NoPatch EXCEPT !.function_code = Some(SrcEval)],
     [NoPatch EXCEPT !.parameters = Some(ParamX)],
     [NoPatch EXCEPT !.parameters = Some(ParamUnderscore)]}

\* ids and names that update_tool and delete_tool are called with
ToolKeys == {NewToolId(k) : k \in 1..MaxTools} \cup {GetDatetimeId, Ta, NoSuchTool}

\* the tools a model is configured with: a custom tool and a compiled one
ToolsOfModel == [NoCfg EXCEPT !.tools = Some(<<Ta, GetDatetime>>)]

NextTools ==
    \/ \E n \in ToolNameInputs, g \in CreateToolInputs :
           /\ clock < MaxClock
           /\ create_tool(n, "new", TRUE, g.config, g.function_code, g.parameters)
    \/ \E key \in ToolKeys, g \in UpdateToolInputs :
           /\ clock < MaxClock
           /\ update_tool(key, g.name, g.description, g.enabled, g.config,
                          g.function_code, g.parameters)
    \/ \E key \in ToolKeys : clock < MaxClock /\ delete_tool(key)
    \/ get_custom_tools
    \/ reload_custom_tools
    \/ update_model(DEFAULT_MODEL_ID, None, None, ToolsOfModel, None)
    \/ \E id \in {None, Some(ModelIdText(DEFAULT_MODEL_ID))} : get_active_tools(id)

SpecTools == Init /\ [][NextTools]_vars

---------------------------------------------------------------------------
(* Claims about the version life cycle, checked under Spec *)

ValidVersionInputs == {v \in VersionInputs : ~IsNone(validate_version(v))}

\* (MAJOR, MINOR, PATCH) of a valid version as integers
Triple(v) == <<IntOf(v[1]), IntOf(v[2]), IntOf(v[3])>>

\* lexicographic order of integer triples
TripleLess(a, b) ==
    \/ a[1] < b[1]
    \/ a[1] = b[1] /\ a[2] < b[2]
    \/ a[1] = b[1] /\ a[2] = b[2] /\ a[3] < b[3]

EveryModelHasAnActiveVersion ==
    \A id \in DOMAIN models :
        version_history(models[id]) # {} => models[id].active_versions # <<>>

\* a deactivate_version call that would take the last active version away
WouldEmptyActiveVersions(id, v) ==
    /\ id \in DOMAIN models
    /\ v \in version_history(models[id])
    /\ v \in Range(models[id].active_versions)
    /\ RemoveFirst(models[id].active_versions, v) = <<>>

LastActiveDeactivationRefused ==
    (last'.op = "deactivate_version" /\ WouldEmptyActiveVersions(last'.id, last'.version))
        => (last'.status = "ValueError" /\ UNCHANGED cfgVars)

\* C1: after any sequence of create_model, create_version, update_model,
\* activate_version and deactivate_version calls every model with a version has
\* a non-empty active_versions list, and a deactivate_version call that would
\* remove the last active version fails with ValueError and changes nothing.
C1_ActiveVersionsNeverEmpty ==
    []EveryModelHasAnActiveVersion /\ [][LastActiveDeactivationRefused]_vars

\* a deactivation of the only active version was just refused
C1_Witness ==
    /\ last.op = "deactivate_version"
    /\ last.status = "ValueError"
    /\ last.reason = "only active version"
    /\ last.id \in DOMAIN models
    /\ Cardinality(version_history(models[last.id])) > 1

CurrentVersionIsGreatest ==
    \A id \in DOMAIN models :
        /\ models[id].version \in version_history(models[id])
        /\ \A v \in version_history(models[id]) :
               ~TripleLess(Triple(models[id].version), Triple(v))

\* a version that create_version adds is greater than every version in the history
NoBackDatedVersion ==
    (last'.op = "create_version" /\ last'.status = "ok") =>
        \A w \in version_history(models[last'.id]) :
            TripleLess(Triple(w), Triple(last'.version))

\* C5: in every reachable state, also after update_model, a model's
\* current_version is a key of its version_history and the greatest version
\* in it under semver order, so create_version never adds a version below one
\* that the history already holds.
C5_CurrentVersionIsGreatest ==
    []CurrentVersionIsGreatest /\ [][NoBackDatedVersion]_vars

\* what a failing or succeeding create_version call must look like
CreateVersionFailsAsSpecified(id, v) ==
    /\ id \notin DOMAIN models => last'.status = "KeyError"
    /\ (id \in DOMAIN models /\ v \in ValidVersionInputs
            /\ (\/ v \in version_history(models[id])
                \/ ~TripleLess(Triple(models[id].version), Triple(v))))
           => last'.status = "ValueError"
    /\ last'.status # "ok" => UNCHANGED cfgVars

CreateVersionFailures ==
    last'.op = "create_version" => CreateVersionFailsAsSpecified(last'.id, last'.version)

\* C6: create_version fails with ValueError when the version is already in the
\* history or is not strictly greater than the current version as integer
\* triples, fails with KeyError when the model id is unknown, and every failing
\* call leaves models, histories and active versions unchanged.
C6_CreateVersionFailures == [][CreateVersionFailures]_vars

\* a create_version call was just refused for a version that is not greater,
\* on a model whose history does not hold that version
C6_Witness ==
    /\ last.op = "create_version"
    /\ last.status = "ValueError"
    /\ last.reason = "not greater"
    /\ last.id \in DOMAIN models
    /\ models[last.id].version \notin version_history(models[last.id])

CreateVersionSucceedsAsSpecified(id, v, c) ==
    LET old == models[id]
        new == models'[id]
    IN  /\ version_history(new) = version_history(old) \cup {v}
        /\ v \notin version_history(old)
        /\ \A w \in version_history(old) : new.versions[w] = old.versions[w]
        /\ new.version = v
        /\ v \in Range(new.active_versions)
        /\ Range(old.active_versions) \subseteq Range(new.active_versions)
        /\ IsNone(c.rag) => new.versions[v].rag_settings = old.rag_settings
        /\ IsNone(c.tools) => new.versions[v].tool_names = old.tool_names
        /\ IsNone(c.base) => new.versions[v].base_model = old.base_model
        /\ IsNone(c.params) => new.versions[v].model_params = old.model_params

CreateVersionSuccess ==
    (last'.op = "create_version" /\ last'.status = "ok") =>
        \A c \in VersionCfgInputs :
            create_model_version(last'.id, last'.version, TRUE, c)
                => CreateVersionSucceedsAsSpecified(last'.id, last'.version, c)

\* C7: a successful create_version adds exactly the one new entry to the
\* version_history, makes it the current version, has it in the stored
\* active_versions next to every version that was active before, and takes
\* every field the caller left out from the model's current configuration.
C7_CreateVersionSuccess == [][CreateVersionSuccess]_vars

---------------------------------------------------------------------------
(* Claims about model names and the active model set, checked under SpecModels *)

\* C2: whenever the store holds a model, the active model set holds an entry,
\* after any sequence of create_model, activate_model, remove_active_model and
\* delete_model calls on the initialized store.
C2_ActiveModelSetNeverEmpty ==
    DOMAIN models # {} => DOMAIN active_models # {}

\* the removal of the only active model was just refused
C2_Witness ==
    /\ last.op \in {"remove_active_model", "delete_model"}
    /\ last.status = "ValueError"
    /\ last.reason = "only active model"
    /\ Cardinality(DOMAIN models) > 1

\* the name with the blanks around it cut off and in lower case
Canonical(name) == Lower(Strip(name))

StoredNames(db, ids) == {db[id].name : id \in ids}

NamesDifferIgnoringCase ==
    \A i, j \in DOMAIN models :
        i # j => Lower(models[i].name) # Lower(models[j].name)

\* how a create or a rename to name must end, others being the ids of the
\* stored models the name is compared with
DuplicateNameRule(name, others) ==
    /\ Canonical(name) \in StoredNames(models, others)
           => (last'.status = "ValueError" /\ last'.reason = "duplicate"
               /\ UNCHANGED cfgVars)
    /\ (~IsNone(validate_model_name(name))
            /\ Canonical(name) \notin StoredNames(models, others))
           => last'.reason # "duplicate"

DuplicateNamesRefused ==
    /\ last'.op = "create_model" =>
           \A n \in NameInputs :
               create_model(n, TRUE, NoCfg, Ver(1, 0, 0))
                   => DuplicateNameRule(n, DOMAIN models)
    /\ (last'.op = "update_model" /\ last'.id \in DOMAIN models) =>
           \A n \in NameInputs :
               update_model(last'.id, Some(n), None, NoCfg, None)
                   => DuplicateNameRule(n, DOMAIN models \ {last'.id})

\* C4: no two stored names are equal ignoring case; a create or a rename to a
\* name that a stored model has, in any case, fails with the duplicate-name
\* ValueError; and a valid name that equals no stored name, compared exactly
\* and ignoring only case, is never refused as a duplicate.
C4_NamesUniqueIgnoringCase ==
    []NamesDifferIgnoringCase /\ [][DuplicateNamesRefused]_vars

---------------------------------------------------------------------------
(* Claims about the tool cache with one thread, checked under SpecTools *)

\* the names _get_custom_tools is to have in the cache: the enabled rows that
\* are not flagged built-in and have source text
CacheableNames == ConfigNames(get_custom_tools_with_code(tools))

\* the names of BUILTIN_TOOLS in graph.py: the compiled tools
CompiledToolNames == {GetDatetime, SearchKnowledgeBase}

ReconciliationDone ==
    last'.op = "get_custom_tools" /\ last'.status = "ok"

\* what a finished reconciliation serves for a name was built from the row
\* that has the name now
ServesCurrentDefinition ==
    ReconciliationDone =>
        \A i \in 1..Len(get_custom_tools_with_code(tools)) :
            LET t == get_custom_tools_with_code(tools)[i] IN
            t.name \in DOMAIN cache' => cache'[t.name] = Executor(t)

\* C8: once update_tool has committed a new source text, parameter list or
\* description for an enabled custom tool that keeps its name, the next
\* reconciliation leaves under that name an executor built from the updated
\* row, never one built from the row as it was before.
C8_CacheServesUpdatedTool == [][ServesCurrentDefinition]_vars

KeysMatchRegistry ==
    last'.op = "get_custom_tools" =>
        /\ DOMAIN cache' = CacheableNames
        /\ DOMAIN cache' \cap CompiledToolNames = {}

\* C9: after each _get_custom_tools run the keys of the cache are the names
\* of the enabled, not built-in rows with source text: rows deleted, disabled
\* or renamed away are evicted, rows not cached are inserted, and no built-in
\* tool is ever a key of the cache.
C9_CacheKeysMatchRegistry == [][KeysMatchRegistry]_vars

---------------------------------------------------------------------------
(* The tool cache under several request threads: every thread runs
   get_all_registered_tools or reload_custom_tools one statement at a time *)

Threads == 1..MaxThreads

\* a thread that runs nothing
IdleThread ==
    [pc |-> "idle", op |-> "", configs |-> <<>>, i |-> 0, to_remove |-> <<>>,
     ret |-> "none", old |-> <<>>, known |-> {}, clock0 |-> 0, seen |-> <<>>]

\* the keys of dict c that are not names of configs, as the list to_remove
RECURSIVE KeysAsList(_, _)
KeysAsList(c, keys) ==
    IF keys = {} THEN <<>>
    ELSE LET k == CHOOSE x \in keys : \A y \in keys \ {x} : ~TextLess(y, x)
         IN  <<k>> \o KeysAsList(c, keys \ {k})

\* a thread is handed the call: it notes which tools the registry has for the
\* cache and the time of the last committed tool write
thread_call(w, op) ==
    /\ workers[w].pc = "idle"
    /\ workers' = [workers EXCEPT ![w] =
                      [IdleThread EXCEPT !.pc = IF op = "reload_custom_tools"
                                               THEN "rebind" ELSE "fetch",
                                         !.op = op,
                                         !.known = ConfigNames(get_custom_tools_with_code(tools)),
                                         !.clock0 = clock]]
    /\ UNCHANGED <<cfgVars, toolVars, clock, config_store, locks, start, last, llm_cache>>

\* reload_custom_tools: _custom_tools_cache = {} binds the global to a new dict;
\* a thread that was returned the old dict keeps the old dict
thread_rebind(w) ==
    /\ workers[w].pc = "rebind"
    /\ cache' = <<>>
    /\ workers' = [v \in DOMAIN workers |->
                      IF v = w THEN [workers[v] EXCEPT !.pc = "fetch"]
                      ELSE IF workers[v].ret = "live"
                           THEN [workers[v] EXCEPT !.ret = "old", !.old = cache]
                      ELSE workers[v]]
    /\ UNCHANGED <<cfgVars, tools, available, clock, config_store, locks, start, last, llm_cache>>

\* _get_custom_tools: custom_tool_configs = tool_store.get_custom_tools_with_code()
thread_fetch(w) ==
    /\ workers[w].pc = "fetch"
    /\ workers' = [workers EXCEPT ![w].configs = get_custom_tools_with_code(tools),
                                  ![w].i = 1,
                                  ![w].pc = "check"]
    /\ UNCHANGED <<cfgVars, toolVars, clock, config_store, locks, start, last, llm_cache>>

\* _get_custom_tools: if config.name not in _custom_tools_cache, and the
\* synthesis of the tool when it is not
thread_check(w) ==
    LET t == workers[w] IN
    /\ t.pc = "check"
    /\ workers' = [workers EXCEPT ![w] =
                      IF t.i > Len(t.configs) THEN [t EXCEPT !.pc = "stale"]
                      ELSE IF t.configs[t.i].name \in DOMAIN cache
                           THEN [t EXCEPT !.i = t.i + 1]
                      ELSE IF SynthRaises(t.configs[t.i]) THEN [t EXCEPT !.pc = "raised"]
                      ELSE [t EXCEPT !.pc = "insert"]]
    /\ UNCHANGED <<cfgVars, toolVars, clock, config_store, locks, start, last, llm_cache>>

\* _get_custom_tools: _custom_tools_cache[config.name] = tool
thread_insert(w) ==
    LET t == workers[w] IN
    /\ t.pc = "insert"
    /\ cache' = Put(cache, t.configs[t.i].name, Executor(t.configs[t.i]))
    /\ workers' = [workers EXCEPT ![w].i = t.i + 1, ![w].pc = "check"]
    /\ UNCHANGED <<cfgVars, tools, available, clock, config_store, locks, start, last, llm_cache>>

\* _get_custom_tools: to_remove = the cached names that are not current names
thread_stale(w) ==
    LET t == workers[w] IN
    /\ t.pc = "stale"
    /\ workers' = [workers EXCEPT
                      ![w].to_remove = KeysAsList(cache, DOMAIN cache \ ConfigNames(t.configs)),
                      ![w].pc = "evict"]
    /\ UNCHANGED <<cfgVars, toolVars, clock, config_store, locks, start, last, llm_cache>>

\* _get_custom_tools: del _custom_tools_cache[name], a KeyError when the name
\* is no longer a key
thread_evict(w) ==
    LET t == workers[w] IN
    /\ t.pc = "evict"
    /\ IF t.to_remove = <<>>
       THEN /\ workers' = [workers EXCEPT ![w].pc = "return"]
            /\ cache' = cache
       ELSE IF Head(t.to_remove) \in DOMAIN cache
       THEN /\ workers' = [workers EXCEPT ![w].to_remove = Tail(t.to_remove)]
            /\ cache' = Drop(cache, Head(t.to_remove))
       ELSE /\ workers' = [workers EXCEPT ![w].pc = "raised"]
            /\ cache' = cache
    /\ UNCHANGED <<cfgVars, tools, available, clock, config_store, locks, start, last, llm_cache>>

\* _get_custom_tools: return _custom_tools_cache, the dict the global is bound
\* to at this moment
thread_return(w) ==
    LET t == workers[w] IN
    /\ t.pc = "return"
    /\ workers' = [workers EXCEPT ![w].ret = "live",
                                  ![w].pc = IF t.op = "get_all_registered_tools"
                                            THEN "read" ELSE "done"]
    /\ UNCHANGED <<cfgVars, toolVars, clock, config_store, locks, start, last, llm_cache>>

\* get_all_registered_tools: all_tools.update(...) reads the dict it was returned
thread_read(w) ==
    LET t == workers[w] IN
    /\ t.pc = "read"
    /\ workers' = [workers EXCEPT ![w].seen = IF t.ret = "live" THEN cache ELSE t.old,
                                  ![w].pc = "done"]
    /\ UNCHANGED <<cfgVars, toolVars, clock, config_store, locks, start, last, llm_cache>>

\* the call is over: it returned, or the exception left it
thread_end(w) ==
    LET t == workers[w] IN
    /\ t.pc \in {"done", "raised"}
    /\ workers' = [workers EXCEPT ![w] = IdleThread]
    /\ last' = Call(t.op, w, None,
                    IF t.pc = "done" THEN Ok ELSE Outcome("Exception", "raised"))
    /\ UNCHANGED <<cfgVars, toolVars, clock, config_store, locks, start, llm_cache>>

ThreadCalls == {"get_all_registered_tools", "reload_custom_tools"}

InitCache ==
    /\ InitConfig
    /\ InitTools
    /\ clock = 0
    /\ config_store = Some(1)
    /\ locks = <<0>>
    /\ workers = [w \in Threads |-> IdleThread]
    /\ start = <<>>
    /\ llm_cache = <<>>
    /\ last = Call("init", NoId, None, Ok)

\* the registry calls leave the threads alone: they commit in one step
RegistryCall(A) == clock < MaxClock /\ A

NextCache ==
    \/ \E c \in {Some(Src1), Some(SrcUnderscore)} :
           RegistryCall(create_tool(Ta, "new", TRUE, None, c, None))
    \/ \E k \in 1..MaxTools : RegistryCall(delete_tool(NewToolId(k)))
    \/ \E w \in Threads, op \in ThreadCalls : thread_call(w, op)
    \/ \E w \in Threads : thread_rebind(w)
    \/ \E w \in Threads : thread_fetch(w)
    \/ \E w \in Threads : thread_check(w)
    \/ \E w \in Threads : thread_insert(w)
    \/ \E w \in Threads : thread_stale(w)
    \/ \E w \in Threads : thread_evict(w)
    \/ \E w \in Threads : thread_return(w)
    \/ \E w \in Threads : thread_read(w)
    \/ \E w \in Threads : thread_end(w)

SpecCache == InitCache /\ [][NextCache]_vars

---------------------------------------------------------------------------
(* Claim about the tool cache under several threads, checked under SpecCache *)

\* a thread reads the cache it was returned: with no tool write committed
\* since its call, every tool the registry had for the cache is in what it reads
ReaderSeesEveryTool ==
    \A w \in Threads :
        (workers[w].pc = "read" /\ workers'[w].pc = "done"
            /\ workers[w].clock0 = clock)
        => workers[w].known \subseteq DOMAIN workers'[w].seen

\* C10: a thread that reads the tool cache while another thread runs a
\* reconciliation or reload_custom_tools sees the whole cache as it was before or
\* as it is after, never a part of it: no tool that the registry holds before
\* and after is missing from what the thread reads.
C10_ReadersSeeWholeCache == [][ReaderSeesEveryTool]_vars

---------------------------------------------------------------------------
(* The configuration store under several request threads: every thread gets
   the store from get_config_store and runs one mutating call, holding the
   _lock of the store it got from the first check to the commit *)

\* a thread that runs nothing
IdleCaller == [pc |-> "idle", call |-> <<>>, store |-> 0, out |-> <<>>]

\* the calls the threads make
CallerInputs ==
    {[op |-> "remove_active_model", id |-> id, version |-> None] : id \in IdInputs}
    \cup {[op |-> "create_model", id |-> NoId, version |-> Ver(1, 0, 0)]}
    \cup {[op |-> "create_version", id |-> DEFAULT_MODEL_ID, version |-> Ver(1, 1, 0)]}
    \cup {[op |-> "deactivate_version", id |-> DEFAULT_MODEL_ID, version |-> Ver(1, 0, 0)]}

\* what the call decides from the rows it reads, before it writes
CallCheck(db, act, avail, c) ==
    IF c.op = "remove_active_model" THEN RemoveActiveCheck(db, act, c.id)
    ELSE IF c.op = "create_model"
         THEN CreateModelCheck(db, avail, FixedName, c.version, None)
    ELSE IF c.op = "create_version"
         THEN CreateVersionCheck(db, avail, c.id, c.version, None)
    ELSE DeactivateVersionCheck(db, c.id, c.version)

\* what the commit of the call is refused for by the tables: the unique index
\* on custom_models.name, the unique (model_id, version), a row that is gone
CommitCheck(db, c) ==
    IF c.op = "create_model"
    THEN IF \E id \in DOMAIN db : db[id].name = Normalised(FixedName)
         THEN Outcome("IntegrityError", "custom_models.name") ELSE Ok
    ELSE IF c.op = "create_version"
    THEN IF c.id \notin DOMAIN db THEN Outcome("NoResultFound", "model")
         ELSE IF c.version \in version_history(db[c.id])
              THEN Outcome("IntegrityError", "uq_model_version") ELSE Ok
    ELSE IF c.op = "deactivate_version"
    THEN IF c.id \notin DOMAIN db \/ c.version \notin version_history(db[c.id])
         THEN Outcome("NoResultFound", "version") ELSE Ok
    ELSE Ok

\* the custom_models rows after the commit of the call
CommitModels(db, avail, c, new_id) ==
    IF c.op = "create_model"
    THEN Put(db, new_id,
             CreateModelRow(avail, FixedName, TRUE, None, None, None, None, c.version))
    ELSE IF c.op = "create_version"
    THEN [db EXCEPT ![c.id] =
             CreateVersionRow(db[c.id], avail, c.version, TRUE, None, None, None, None)]
    ELSE IF c.op = "deactivate_version"
    THEN [db EXCEPT ![c.id] = DeactivateVersionRow(db[c.id], c.version)]
    ELSE db

\* the active_models rows after the commit of the call
CommitActive(act, c) ==
    IF c.op = "remove_active_model" THEN Drop(act, c.id) ELSE act

\* a request thread is handed a call
caller_call(w, c) ==
    /\ start # None
    /\ workers[w].pc = "idle"
    /\ workers' = [workers EXCEPT ![w] = [IdleCaller EXCEPT !.pc = "get_store", !.call = c]]
    /\ UNCHANGED <<cfgVars, toolVars, clock, config_store, locks, start, last, llm_cache>>

\* get_config_store: if _config_store is None
get_config_store_test(w) ==
    /\ workers[w].pc = "get_store"
    /\ workers' = [workers EXCEPT ![w].pc = IF IsNone(config_store)
                                            THEN "construct" ELSE "return"]
    /\ UNCHANGED <<cfgVars, toolVars, clock, config_store, locks, start, last, llm_cache>>

\* get_config_store: _config_store = ConfigStore(), a store with a lock of its own
get_config_store_construct(w) ==
    /\ workers[w].pc = "construct"
    /\ locks' = Append(locks, 0)
    /\ config_store' = Some(Len(locks) + 1)
    /\ workers' = [workers EXCEPT ![w].pc = "return"]
    /\ UNCHANGED <<cfgVars, toolVars, clock, start, last, llm_cache>>

\* get_config_store: return _config_store
get_config_store_return(w) ==
    /\ workers[w].pc = "return"
    /\ workers' = [workers EXCEPT ![w].store = Val(config_store), ![w].pc = "acquire"]
    /\ UNCHANGED <<cfgVars, toolVars, clock, config_store, locks, start, last, llm_cache>>

\* with self._lock: the thread waits until the lock of its store is free
caller_acquire(w) ==
    /\ workers[w].pc = "acquire"
    /\ locks[workers[w].store] = 0
    /\ locks' = [locks EXCEPT ![workers[w].store] = w]
    /\ workers' = [workers EXCEPT ![w].pc = "check"]
    /\ UNCHANGED <<cfgVars, toolVars, clock, config_store, start, last, llm_cache>>

\* the reads and checks of the call: it raises, or goes on to write
caller_check(w) ==
    LET out == CallCheck(models, active_models, available, workers[w].call) IN
    /\ workers[w].pc = "check"
    /\ workers' = [workers EXCEPT ![w].out = IF out = Ok THEN <<>> ELSE Some(out),
                                  ![w].pc = IF out = Ok THEN "commit" ELSE "release"]
    /\ UNCHANGED <<cfgVars, toolVars, clock, config_store, locks, start, last, llm_cache>>

\* the writes of the call and session.commit()
caller_commit(w) ==
    LET c == workers[w].call
        out == CommitCheck(models, c)
    IN
    /\ workers[w].pc = "commit"
    /\ IF out = Ok
       THEN /\ \E new_id \in IF c.op = "create_model" THEN FreshIds ELSE {NoId} :
                   models' = CommitModels(models, available, c, new_id)
            /\ active_models' = CommitActive(active_models, c)
       ELSE UNCHANGED cfgVars
    /\ workers' = [workers EXCEPT ![w].out = Some(out), ![w].pc = "release"]
    /\ UNCHANGED <<toolVars, clock, config_store, locks, start, last, llm_cache>>

\* the end of the with block: the lock is released and the call is over
caller_release(w) ==
    /\ workers[w].pc = "release"
    /\ locks' = [locks EXCEPT ![workers[w].store] = 0]
    /\ workers' = [workers EXCEPT ![w].pc = "done"]
    /\ last' = Call(workers[w].call.op, workers[w].call.id, workers[w].call.version,
                    Val(workers[w].out))
    /\ UNCHANGED <<cfgVars, toolVars, clock, config_store, start, llm_cache>>

\* the process is started again on the tables it left: _config_store is None
\* until a caller of get_config_store makes the store
restart ==
    /\ start = None
    /\ config_store' = None
    /\ locks' = <<>>
    /\ start' = Some([models |-> models, active_models |-> active_models])
    /\ UNCHANGED <<cfgVars, toolVars, clock, workers, last, llm_cache>>

\* the request threads are let loose on the store that the process has made
serve ==
    /\ start = None
    /\ start' = Some([models |-> models, active_models |-> active_models])
    /\ UNCHANGED <<cfgVars, toolVars, clock, config_store, locks, workers, last, llm_cache>>

InitLocks ==
    /\ InitConfig
    /\ InitTools
    /\ clock = 0
    /\ config_store = Some(1)
    /\ locks = <<0>>
    /\ workers = [w \in Threads |-> IdleCaller]
    /\ start = None
    /\ llm_cache = <<>>
    /\ last = Call("init", NoId, None, Ok)

\* before the threads are let loose the calls come one at a time
OneAtATime(A) == start = None /\ A

NextLocks ==
    \/ OneAtATime(create_model(FixedName, TRUE, NoCfg, Ver(1, 0, 0)))
    \/ \E id \in NewIds : OneAtATime(PriorityRoom /\ activate_model(id))
    \/ restart
    \/ serve
    \/ \E w \in Threads, c \in CallerInputs : caller_call(w, c)
    \/ \E w \in Threads : get_config_store_test(w)
    \/ \E w \in Threads : get_config_store_construct(w)
    \/ \E w \in Threads : get_config_store_return(w)
    \/ \E w \in Threads : caller_acquire(w)
    \/ \E w \in Threads : caller_check(w)
    \/ \E w \in Threads : caller_commit(w)
    \/ \E w \in Threads : caller_release(w)

SpecLocks == InitLocks /\ [][NextLocks]_vars

---------------------------------------------------------------------------
(* Claim about concurrent mutating calls, checked under SpecLocks *)

\* the call run alone on the tables t: the tables it leaves and whether it succeeds
RunAlone(t, c) ==
    LET out == CallCheck(t.models, t.active_models, available, c)
        new_id == CHOOSE id \in 1..MaxModels : id \notin DOMAIN t.models
    IN  IF out = Ok
        THEN [models |-> CommitModels(t.models, available, c, new_id),
              active_models |-> CommitActive(t.active_models, c), ok |-> <<TRUE>>]
        ELSE [models |-> t.models, active_models |-> t.active_models, ok |-> <<FALSE>>]

\* the calls of threads a and b run one after the other, a first
RunInOrder(a, b) ==
    LET first == RunAlone(Val(start), workers[a].call)
        second == RunAlone(first, workers[b].call)
    IN  [models |-> second.models, active_models |-> second.active_models,
         ok |-> [w \in {a, b} |-> IF w = a THEN first.ok[1] ELSE second.ok[1]]]

\* what the two calls have left
RunTogether(a, b) ==
    [models |-> models, active_models |-> active_models,
     ok |-> [w \in {a, b} |-> Val(workers[w].out) = Ok]]

BothDone(a, b) == a # b /\ workers[a].pc = "done" /\ workers[b].pc = "done"

SameCall(a, b, op) == workers[a].call = workers[b].call /\ workers[a].call.op = op

\* C3: every mutating call holds the single lock of the store from its first
\* check to its commit, so two calls that run at the same time leave the
\* tables and the results that they leave when run one after the other, in one
\* of the two orders; two deactivate_version, two create_model with one name
\* and two create_version with one version never both succeed.
C3_CallsAreSerialised ==
    \A a, b \in Threads :
        BothDone(a, b) =>
            /\ RunTogether(a, b) \in {RunInOrder(a, b), RunInOrder(b, a)}
            /\ \A op \in {"deactivate_version", "create_model", "create_version"} :
                   SameCall(a, b, op) =>
                       ~(Val(workers[a].out) = Ok /\ Val(workers[b].out) = Ok)

---------------------------------------------------------------------------
(* Claims about the tool registry, checked under SpecTools *)

\* a source text the safety screen is to refuse: empty, blank, or with a
\* deny-listed substring in any letter case
UnsafeSource(code) ==
    \/ code = <<>>
    \/ \A i \in 1..Len(code) : code[i] \in BlankLines
    \/ \E i \in 1..Len(code) : LowerLine(code[i]) \in DangerousLines

NoUnsafeSourceStored ==
    \A id \in DOMAIN tools :
        ~IsNone(tools[id].function_code) => ~UnsafeSource(Val(tools[id].function_code))

\* a refused create_tool or update_tool leaves the rows and the known names
RefusedToolCallWritesNothing ==
    (last'.op \in {"create_tool", "update_tool"} /\ last'.status # "ok")
        => (tools' = tools /\ available' = available)

\* C11: no stored tool has a source text that is empty, blank or holds a
\* deny-listed substring in any letter case, because create_tool and
\* update_tool refuse such a text; a refused call leaves list_tools and the
\* known tool names unchanged.
C11_NoUnsafeSourceStored ==
    []NoUnsafeSourceStored /\ [][RefusedToolCallWritesNothing]_vars

\* two rejections in a row, one for a syntax error and one for a deny-listed
\* pattern, carry different error classes, and neither writes a row
SyntaxAndSecurityRejectionsDiffer ==
    /\ (last'.op \in {"create_tool", "update_tool"}
            /\ last'.reason \in {"syntax", "dangerous"})
          => (last'.status # "ok" /\ tools' = tools)
    /\ (/\ last.op \in {"create_tool", "update_tool"}
        /\ last'.op \in {"create_tool", "update_tool"}
        /\ {last.reason, last'.reason} = {"syntax", "dangerous"})
          => last'.status # last.status

\* C12: a source text with a syntax error is refused with an error class
\* other than the one a deny-listed pattern is refused with, so the caller
\* can tell the two apart by class; in both cases no row is written.
C12_SyntaxErrorIsNotSecurityError == [][SyntaxAndSecurityRejectionsDiffer]_vars

\* C13: after any create_tool, update_tool and delete_tool calls every
\* built-in tool is still a row of the registry, still flagged built-in,
\* under its original name and without source text.
C13_BuiltinsArePreserved ==
    \A id \in DOMAIN BuiltinRows :
        /\ id \in DOMAIN tools
        /\ is_builtin(tools[id])
        /\ tools[id].name = BuiltinRows[id].name
        /\ IsNone(tools[id].function_code)

---------------------------------------------------------------------------
(* The version life cycle as one trace, checked under Spec *)

V100 == Ver(1, 0, 0)
V110 == Ver(1, 1, 0)

\* the model the last call was made on, before and after the call
ActiveBefore == models[last'.id].active_versions
ActiveAfter == models'[last'.id].active_versions

LastCallOn(op, v) ==
    last'.op = op /\ last'.version = v /\ last'.id \in DOMAIN models

\* create_version 1.1.0 on the model created at 1.0.0: both versions active
LifecycleCreate ==
    (/\ LastCallOn("create_version", V110)
     /\ version_history(models[last'.id]) = {V100}
     /\ models[last'.id].version = V100
     /\ ActiveBefore = <<V100>>)
        => (last'.status = "ok" /\ Range(ActiveAfter) = {V100, V110})

\* deactivate_version 1.0.0 while both are active: 1.1.0 stays
LifecycleDeactivateOld ==
    (LastCallOn("deactivate_version", V100) /\ Range(ActiveBefore) = {V100, V110})
        => (last'.status = "ok" /\ Range(ActiveAfter) = {V110})

\* deactivate_version 1.1.0, the only active version: refused, 1.1.0 stays
LifecycleDeactivateLast ==
    (LastCallOn("deactivate_version", V110) /\ Range(ActiveBefore) = {V110})
        => (last'.status = "ValueError" /\ ActiveAfter = ActiveBefore)

\* activate_version 1.0.0 again: both are active
LifecycleActivateOld ==
    (/\ LastCallOn("activate_version", V100)
     /\ V100 \in version_history(models[last'.id])
     /\ Range(ActiveBefore) = {V110})
        => (last'.status = "ok" /\ Range(ActiveAfter) = {V100, V110})

\* deactivate_version 1.1.0 now: active_versions is exactly [1.0.0]
LifecycleDeactivateNew ==
    (LastCallOn("deactivate_version", V110) /\ Range(ActiveBefore) = {V100, V110})
        => (last'.status = "ok" /\ ActiveAfter = <<V100>>)

\* C14: the life cycle of a model created at 1.0.0, step by step from the
\* state the step before leaves: create_version 1.1.0 succeeds with both
\* versions active; deactivate_version 1.0.0 succeeds; deactivate_version
\* 1.1.0 is then refused and 1.1.0 stays active; after activate_version 1.0.0,
\* deactivate_version 1.1.0 succeeds and active_versions is exactly [1.0.0].
C14_VersionLifecycle ==
    /\ [][LifecycleCreate]_vars
    /\ [][LifecycleDeactivateOld]_vars
    /\ [][LifecycleDeactivateLast]_vars
    /\ [][LifecycleActivateOld]_vars
    /\ [][LifecycleDeactivateNew]_vars

---------------------------------------------------------------------------
(* Requests against the configuration store: inputs and next-state relation *)

V010 == Ver(0, 1, 0)
EmptyText == <<>>

\* names the models of this specification are created under
ResolveNames == {<<"a", "a">>, <<"a", "_">>}

\* the first piece of an identifier: names as stored, in another letter case,
\* with the characters "_" and "%", a name no model has, and the ids
IdentifierHeads ==
    ResolveNames
        \cup {<<"A", "A">>, <<"_", "a">>, <<"%">>, <<"z", "z">>, DefaultModelName}
        \cup {ModelIdText(id) : id \in IdInputs}

IdentifierInputs ==
    {<<h>> : h \in IdentifierHeads}
        \cup {<<h, v>> : h \in IdentifierHeads, v \in {V100, V110, V010, EmptyText}}

NextResolve ==
    \/ \E n \in ResolveNames, e \in BOOLEAN : create_model(n, e, NoCfg, V100)
    \/ \E id \in IdInputs : VersionRoom /\ create_model_version(id, V110, TRUE, NoCfg)
    \/ \E id \in IdInputs, v \in {V100, V110} : activate_model_version(id, v)
    \/ \E id \in IdInputs, v \in {V100, V110} : deactivate_model_version(id, v)
    \/ \E id \in IdInputs, e \in BOOLEAN, v \in {None, Some(V010)} :
           update_model(id, None, Some(e), NoCfg, v)
    \/ \E identifier \in IdentifierInputs : resolve_model_config(identifier)

SpecResolve == Init /\ [][NextResolve]_vars

---------------------------------------------------------------------------
(* Claims about the request resolver, checked under SpecResolve *)

\* the stored models whose name is the text, ignoring letter case
NamedIgnoringCase(text) == {id \in DOMAIN models : Lower(models[id].name) = Lower(text)}

ResolvesByExactName(identifier) ==
    LET r == resolve_model_identifier(models, identifier) IN
    /\ r.status # "MultipleResultsFound"
    /\ \A id \in NamedIgnoringCase(identifier[1]) :
           /\ Len(identifier) = 1 => r = Resolved(id, None)
           /\ (Len(identifier) = 2 /\ identifier[2] \in version_history(models[id]))
                 => r = Resolved(id, Some(models[id].versions[identifier[2]]))
    /\ (r.status = "resolved" /\ get_model(models, identifier[1]) = {})
           => r.id \in NamedIgnoringCase(identifier[1])

\* C15: resolve_model_identifier("N@V") with N a stored name ignoring letter
\* case and V in that model's version_history returns the model with the
\* stored version row of V, and "N" alone returns the model with no version;
\* a lookup by name never returns a model whose lower-cased name differs from
\* the lower-cased identifier, and never raises.
C15_ResolveByExactName ==
    \A identifier \in IdentifierInputs : ResolvesByExactName(identifier)

\* the identifier is no stored name, ignoring letter case, and no stored id
UnknownIdentifier(identifier) ==
    NamedIgnoringCase(identifier[1]) = {} /\ get_model(models, identifier[1]) = {}

\* C16: for every identifier that is neither a stored model name nor a stored
\* model id, resolve_model_identifier returns "unresolved" without raising and
\* the request resolver serves the request from the default backend with no
\* custom configuration.
C16_UnknownIdentifierDegrades ==
    \A identifier \in IdentifierInputs :
        UnknownIdentifier(identifier) =>
            /\ resolve_model_identifier(models, identifier) = Unresolved
            /\ ResolveModelConfig(models, identifier) = ServedByDefault

\* the stored models the identifier names, by name ignoring case or by id
NamedModels(identifier) ==
    NamedIgnoringCase(identifier[1]) \cup get_model(models, identifier[1])

\* the identifier asks for a version, and the version is not active on m
AsksInactiveVersion(identifier, m) ==
    /\ Len(identifier) = 2
    /\ identifier[2] # EmptyText
    /\ identifier[2] \notin Range(models[m].active_versions)

InactiveVersionNeverServed(identifier) ==
    \A m \in NamedModels(identifier) :
        AsksInactiveVersion(identifier, m) =>
            /\ ResolveModelConfig(models, identifier).status # "ok"
            /\ models[m].enabled =>
                   ResolveModelConfig(models, identifier)
                       = Failed("HTTPException", "inactive", models[m].active_versions)

\* C17: a request whose identifier names a stored model and asks for a
\* version that is not in the model's active_versions is never served, not by
\* the model and not by the default backend; for an enabled model it fails
\* with the inactive-version error that lists the active versions.
C17_InactiveVersionNeverServed ==
    \A identifier \in IdentifierInputs : InactiveVersionNeverServed(identifier)

DisabledModelRefused(identifier) ==
    LET r == resolve_model_identifier(models, identifier)
        served == ResolveModelConfig(models, identifier)
    IN  /\ (r.status = "resolved" /\ ~models[r.id].enabled)
               => served = Failed("HTTPException", "disabled", <<>>)
        /\ (served.status = "ok" /\ served.id # NoId) => models[served.id].enabled

DisabledModelsRefused ==
    \A identifier \in IdentifierInputs : DisabledModelRefused(identifier)

\* a request is never served by a model that is disabled
ServedModelIsEnabled ==
    (last'.op = "resolve" /\ last'.status = "ok" /\ last'.id # NoId)
        => models[last'.id].enabled

---------------------------------------------------------------------------
(* Claims about the tools of a request, checked under SpecTools *)

\* the tools get_active_tools hands out for the call just made, by name
ResolvedToolNames ==
    LET names == ModelForRequest(models, active_models, last'.id).tool_names
        resolved == ActiveTools(names, AllRegisteredTools(cache'))
    IN  [i \in 1..Len(resolved) |-> resolved[i].name]

ResolvedToolsAreTheKnownOnes ==
    last'.op = "get_active_tools" =>
        /\ last'.status = "ok"
        /\ ResolvedToolNames
               = FilterSeq(ModelForRequest(models, active_models, last'.id).tool_names,
                           CompiledToolNames \cup DOMAIN cache')

\* C19: get_active_tools returns, in order, the tool_names of the model that
\* are names of compiled tools or keys of the cache; a name that is neither
\* is left out and the call never fails because of it.
C19_ResolvedToolsSkipUnknownNames == [][ResolvedToolsAreTheKnownOnes]_vars

---------------------------------------------------------------------------
(* Claims about removal from the active set and deletion, checked under
   SpecModels *)

\* m is the one entry of the active model set
SoleActiveModel(m) == DOMAIN active_models = {m}

SoleActiveModelIsKept ==
    (last'.op \in {"remove_active_model", "delete_model"} /\ SoleActiveModel(last'.id))
        => (last'.status = "ValueError" /\ UNCHANGED cfgVars)

DeleteRemovesEverything ==
    (/\ last'.op = "delete_model"
     /\ last'.id \in DOMAIN models
     /\ ~SoleActiveModel(last'.id))
        => /\ last'.status = "ok"
           /\ DOMAIN models' = DOMAIN models \ {last'.id}
           /\ DOMAIN active_models' = DOMAIN active_models \ {last'.id}
           /\ \A id \in DOMAIN models' : models'[id] = models[id]
           /\ \A id \in DOMAIN active_models' : active_models'[id] = active_models[id]

\* C20: remove_active_model(m) and delete_model(m) fail with ValueError when
\* m is the only entry of the active model set and then leave the active
\* set, the model and its versions as they were; delete_model of a model that
\* is not the only active entry removes the model with all its versions and
\* its entry in the active set, and nothing else.
C20_SoleActiveModelIsKept ==
    [][SoleActiveModelIsKept]_vars /\ [][DeleteRemovesEverything]_vars

\* delete_model was just refused for the only active model while the store
\* holds another model
C20_Witness ==
    /\ last.op = "delete_model"
    /\ last.status = "ValueError"
    /\ SoleActiveModel(last.id)
    /\ Cardinality(DOMAIN models) > 1

---------------------------------------------------------------------------
(* Claims about activation of versions and models *)

\* the version of the last call is well formed, and as the store keeps it
LastVersionValid == last'.version \in ValidVersionInputs
LastVersion == Val(validate_version(last'.version))

ActivationTogglesTogether ==
    /\ (last'.op = "activate_version" /\ last'.status = "ok")
          => /\ LastVersion \in Range(models'[last'.id].active_versions)
             /\ models'[last'.id].versions[LastVersion].enabled
    /\ (last'.op = "deactivate_version" /\ last'.status = "ok")
          => /\ LastVersion \notin Range(models'[last'.id].active_versions)
             /\ ~models'[last'.id].versions[LastVersion].enabled

ActivationOfUnknownFails ==
    (/\ last'.op \in {"activate_version", "deactivate_version"}
     /\ LastVersionValid
     /\ (last'.id \notin DOMAIN models
            \/ LastVersion \notin version_history(models[last'.id])))
        => (last'.status = "KeyError" /\ UNCHANGED cfgVars)

\* C21: a successful activate_version(m, v) leaves v in the stored
\* active_versions with the version row enabled, a successful
\* deactivate_version(m, v) leaves v out of it with the version row disabled,
\* and both fail with KeyError and change nothing for an unknown model or an
\* unknown version. Checked under Spec.
C21_VersionActivationToggles ==
    [][ActivationTogglesTogether]_vars /\ [][ActivationOfUnknownFails]_vars

\* activate_model(m) has put m first and left the others in their order
ActivatedModelIsFirst ==
    (last'.op = "activate_model" /\ last'.status = "ok") =>
        /\ DOMAIN active_models' = DOMAIN active_models \cup {last'.id}
        /\ \A j \in DOMAIN active_models' \ {last'.id} :
               active_models'[last'.id] < active_models'[j]
        /\ ActiveModelId(models', active_models') = last'.id
        /\ \A i, j \in DOMAIN active_models \ {last'.id} :
               (active_models[i] < active_models[j])
                   <=> (active_models'[i] < active_models'[j])

---------------------------------------------------------------------------
(* A model write while the tool registry changes: ConfigStore._lock and
   ToolStore._lock are two locks, so a tool call can run between the line of
   a model write that filters the tool names and its session.commit() *)

\* a thread that writes no model
IdleWriter == [pc |-> "idle", call |-> <<>>, validated |-> <<>>]

\* the model writes the threads make
WriteInputs ==
    {[op |-> "create_model", id |-> NoId, version |-> Some(V100), tool_names |-> None],
     [op |-> "create_version", id |-> DEFAULT_MODEL_ID, version |-> Some(V110),
      tool_names |-> None],
     [op |-> "update_model", id |-> DEFAULT_MODEL_ID, version |-> None,
      tool_names |-> Some(<<Ta, GetDatetime>>)],
     [op |-> "update_model", id |-> DEFAULT_MODEL_ID, version |-> None,
      tool_names |-> Some(<<Ta>>)]}

\* tool_list: the names the write starts from
ToolList(db, avail, c) ==
    IF ~IsNone(c.tool_names) THEN Val(c.tool_names)
    ELSE IF c.op = "create_model" THEN avail
    ELSE IF c.id \in DOMAIN db THEN db[c.id].tool_names
    ELSE <<>>

\* the write up to its tool check: the outcome before anything is written
WriteCheck(db, avail, c) ==
    IF c.op = "create_model"
    THEN CreateModelCheck(db, avail, FixedName, Val(c.version), c.tool_names)
    ELSE IF c.op = "create_version"
    THEN CreateVersionCheck(db, avail, c.id, Val(c.version), c.tool_names)
    ELSE UpdateModelCheck(db, avail, c.id, None, c.tool_names, None)

\* the rows the write commits, with the names it has validated
WriteRows(db, validated, c, new_id) ==
    IF c.op = "create_model"
    THEN Put(db, new_id, CreateModelRow(validated, FixedName, TRUE, None,
                                        Some(validated), None, None, Val(c.version)))
    ELSE IF c.op = "create_version"
    THEN [db EXCEPT ![c.id] = CreateVersionRow(db[c.id], validated, Val(c.version), TRUE,
                                               None, Some(validated), None, None)]
    ELSE [db EXCEPT ![c.id] = UpdateModelRow(db[c.id], validated, None, None, None,
                                             Some(validated), None, None, None)]

\* with self._lock, the checks and validated_tools = [tool for tool in
\* tool_list if tool in AVAILABLE_TOOL_NAMES]: the write raises or goes on
write_validate(w, c) ==
    LET out == WriteCheck(models, available, c) IN
    /\ workers[w].pc = "idle"
    /\ locks[1] = 0
    /\ IF out = Ok
       THEN /\ workers' = [workers EXCEPT ![w] =
                   [pc |-> "commit", call |-> c,
                    validated |-> FilterSeq(ToolList(models, available, c),
                                            Range(available))]]
            /\ locks' = [locks EXCEPT ![1] = w]
            /\ last' = last
       ELSE /\ last' = Call(c.op, c.id, c.version, out)
            /\ UNCHANGED <<workers, locks>>
    /\ UNCHANGED <<cfgVars, toolVars, clock, config_store, start, llm_cache>>

\* the rows are written with validated_tools, session.commit(), and the lock
\* is released
write_commit(w) ==
    LET c == workers[w].call IN
    /\ workers[w].pc = "commit"
    /\ \E new_id \in IF c.op = "create_model" THEN FreshIds ELSE {c.id} :
           /\ models' = WriteRows(models, workers[w].validated, c, new_id)
           /\ last' = Call(c.op, new_id, c.version, Ok)
    /\ workers' = [workers EXCEPT ![w] = IdleWriter]
    /\ locks' = [locks EXCEPT ![1] = 0]
    /\ UNCHANGED <<active_models, toolVars, clock, config_store, start, llm_cache>>

InitWrites ==
    /\ InitConfig
    /\ InitTools
    /\ clock = 0
    /\ config_store = Some(1)
    /\ locks = <<0>>
    /\ workers = [w \in Threads |-> IdleWriter]
    /\ start = <<>>
    /\ llm_cache = <<>>
    /\ last = Call("init", NoId, None, Ok)

\* the tool calls that run beside the model writes
NextWrites ==
    \/ \E w \in Threads, c \in WriteInputs : write_validate(w, c)
    \/ \E w \in Threads : write_commit(w)
    \/ clock < MaxClock /\ create_tool(Ta, "new", TRUE, None, Some(Src1), None)
    \/ \E e \in BOOLEAN :
           clock < MaxClock /\ update_tool(Ta, None, None, Some(e), None, None, None)
    \/ clock < MaxClock /\ delete_tool(Ta)

SpecWrites == InitWrites /\ [][NextWrites]_vars

---------------------------------------------------------------------------
(* Claim about the tool names of a model, checked under SpecWrites *)

\* every tool_names list the tables hold: of the models and of their versions
StoredToolLists ==
    {models[id].tool_names : id \in DOMAIN models}
        \cup UNION {{models[id].versions[v].tool_names :
                        v \in DOMAIN models[id].versions} : id \in DOMAIN models}

ToolListsNonEmpty == \A l \in StoredToolLists : l # <<>>

\* the lists a committing write stores hold only names that are known when
\* it commits
CommittedToolsAreKnown ==
    \A w \in Threads :
        (workers[w].pc = "commit" /\ workers'[w].pc = "idle") =>
            /\ Range(models'[last'.id].tool_names) \subseteq Range(available')
            /\ workers[w].call.op # "update_model" =>
                   Range(models'[last'.id].versions[Val(last'.version)].tool_names)
                       \subseteq Range(available')

\* a write whose filtered list is empty is refused and writes nothing
EmptyToolListRefused ==
    \A w \in Threads, c \in WriteInputs :
        (/\ workers[w].pc = "idle" /\ locks[1] = 0
         /\ FilterSeq(ToolList(models, available, c), Range(available)) = <<>>
         /\ last'.op = c.op /\ last'.id = c.id /\ last'.version = c.version
         /\ workers' = workers /\ last' # last)
            => last'.status = "ValueError" /\ UNCHANGED cfgVars

\* C23: every stored tool_names list is non-empty; the list committed by
\* create_model, create_version or update_model holds only names that are
\* known at the commit, also when a tool call runs beside the write; a write
\* whose filtered list is empty fails with a validation error and changes
\* nothing
C23_ToolNamesKnownAtCommit ==
    /\ []ToolListsNonEmpty
    /\ [][CommittedToolsAreKnown]_vars
    /\ [][EmptyToolListRefused]_vars

---------------------------------------------------------------------------
(* Claim about the known tool names, checked under SpecTools *)

ToolMutations == {"create_tool", "update_tool", "delete_tool"}

\* the names of the rows of the tools table that are enabled
EnabledToolNames(reg) == {reg[i].name : i \in {j \in DOMAIN reg : reg[j].enabled}}

\* C24: after create_tool, update_tool (enable, disable, rename) or
\* delete_tool completes, AVAILABLE_TOOL_NAMES holds the names of the tools
\* that are enabled now, and no other name
C24_KnownNamesAreEnabledTools ==
    [][last'.op \in ToolMutations =>
           Range(available') = EnabledToolNames(tools')]_vars

\* a tool has been disabled, and its name has left the known names
C24_Witness ==
    /\ last.op = "update_tool" /\ last.status = "ok"
    /\ \E i \in DOMAIN tools : ~tools[i].enabled /\ tools[i].name \notin Range(available)

---------------------------------------------------------------------------
(* Claim about a tool that cannot be synthesized, checked under SpecTools *)

Reconciliations == {"get_custom_tools", "reload_custom_tools", "get_active_tools"}

\* the names of the custom tools _create_dynamic_tool raises on, and of the rest
FailingNames(reg) ==
    {c.name : c \in {d \in Range(get_custom_tools_with_code(reg)) : SynthRaises(d)}}
SynthesizableNames(reg) ==
    {c.name : c \in {d \in Range(get_custom_tools_with_code(reg)) : ~SynthRaises(d)}}

SynthesisFailureIsContained ==
    (last'.op \in Reconciliations /\ FailingNames(tools) # {}) =>
        /\ last'.status = "ok"
        /\ FailingNames(tools) \cap DOMAIN cache' = {}
        /\ SynthesizableNames(tools) \subseteq DOMAIN cache'

\* C25: when one custom tool cannot be synthesized the reconciliation still
\* completes: the call does not fail, that tool is left out of the cache and
\* every other custom tool is in it
C25_SynthesisFailureIsContained == [][SynthesisFailureIsContained]_vars

---------------------------------------------------------------------------
(* The executor of a synthesized tool: make_executor.execute_custom_tool.
   exec() runs the source on safe_globals, which has no "__builtins__" key, so
   exec() puts the builtins module there and every built-in name resolves *)

\* sources the validator accepts, by what they do when they run
SrcReturnsNone == <<"def f():", "return None">>
SrcRaisesValueError == <<"def f():", "raise ValueError">>
SrcRaisesSystemExit == <<"def f():", "raise SystemExit">>
SrcNoFunction == <<"x = 2">>
SrcDividesByZero == <<"x = 1 / 0", "def f():">>

ExecutorSources ==
    {Src1, Src2, SrcReturnsNone, SrcRaisesValueError, SrcRaisesSystemExit,
     SrcNoFunction, SrcDividesByZero}

\* the keyword arguments a call comes with
NoKwargs == <<>>
KwargsX == Put(<<>>, <<"x">>, "hi")
KwargInputs == {NoKwargs, KwargsX}

\* the outcome of a statement or of a call: a value, or an exception by class
PyNone == [kind |-> "value", value |-> "None", none |-> TRUE]
PyValue(text) == [kind |-> "value", value |-> text, none |-> FALSE]
PyException(class) == [kind |-> "Exception", value |-> class, none |-> FALSE]
PyBaseException(class) == [kind |-> "BaseException", value |-> class, none |-> FALSE]

\* exec(fn_code, safe_globals, safe_locals): the statements at top level
ExecSource(fn_code) ==
    IF \E i \in 1..Len(fn_code) : fn_code[i] = "x = 1 / 0"
    THEN PyException("ZeroDivisionError") ELSE PyNone

\* the callables exec() leaves in safe_locals, by their def line
DefinedFunctions(fn_code) == {i \in 1..Len(fn_code) : IsDefLine(fn_code[i])}

\* safe_locals after exec(): the lines that bind a name, a def line to a
\* callable and an assignment to a value; a name bound twice keeps the place
\* of its first binding and the object of its last
BindingLines(fn_code) ==
    {i \in 1..Len(fn_code) : IsDefLine(fn_code[i]) \/ fn_code[i] = "main = 5"}

BoundName(l) == IF l = "main = 5" THEN <<"m", "a", "i", "n">> ELSE FunctionName(l)

\* safe_locals[name]: the line of the last binding of the name
LocalNamed(fn_code, name) ==
    LET lines == {i \in BindingLines(fn_code) : BoundName(fn_code[i]) = name} IN
    IF lines = {} THEN None
    ELSE Some(CHOOSE i \in lines : \A j \in lines : j <= i)

\* the function the executor calls: the callable under the tool's name, main,
\* run or execute, else the first callable in safe_locals whose name has no
\* leading underscore; None when there is none
RECURSIVE FirstNamed(_, _)
FirstNamed(fn_code, names) ==
    IF names = <<>> THEN None
    ELSE LET found == LocalNamed(fn_code, Head(names)) IN
         IF ~IsNone(found) /\ IsDefLine(fn_code[Val(found)]) THEN found
         ELSE FirstNamed(fn_code, Tail(names))

\* variant: the executor calls the first function the source defines
FindFunction_FirstDefined(fn_code, t_name) ==
    IF DefinedFunctions(fn_code) = {} THEN None
    ELSE Some(CHOOSE i \in DefinedFunctions(fn_code) :
                  \A j \in DefinedFunctions(fn_code) : i <= j)

FindFunction(fn_code, t_name) ==
    LET named == FirstNamed(fn_code, <<t_name, <<"m", "a", "i", "n">>, <<"r", "u", "n">>,
                                      <<"e", "x", "e", "c", "u", "t", "e">>>>)
        first == {i \in BindingLines(fn_code) :
                     \A j \in BindingLines(fn_code) :
                         BoundName(fn_code[j]) = BoundName(fn_code[i]) => i <= j}
        others == {i \in first :
                      LET obj == Val(LocalNamed(fn_code, BoundName(fn_code[i]))) IN
                      /\ IsDefLine(fn_code[obj])
                      /\ BoundName(fn_code[i])[1] # "_"}
    IN  IF ~IsNone(named) THEN named
        ELSE IF others = {} THEN None
        ELSE LET i == CHOOSE k \in others : \A j \in others : k <= j
             IN  LocalNamed(fn_code, BoundName(fn_code[i]))

\* func(**kwargs): the arguments are bound, then the body runs
CallFunction(fn_code, i, kwargs) ==
    LET body == IF i < Len(fn_code) THEN fn_code[i + 1] ELSE "pass" IN
    IF DOMAIN kwargs # Range(DefArgs(fn_code[i])) THEN PyException("TypeError")
    ELSE IF body = "return x" THEN PyValue(kwargs[<<"x">>])
    ELSE IF body = "return 2" THEN PyValue("2")
    ELSE IF body = "raise ValueError" THEN PyException("ValueError")
    ELSE IF body = "raise SystemExit" THEN PyBaseException("SystemExit")
    ELSE IF body \in {"return 'named'", "return 'main'", "return 'run'",
                      "return 'execute'", "return 'other'", "return 'hidden'"}
    THEN PyValue(body)
    ELSE PyNone

\* what the caller of the executor gets: a text, or an exception
Returned(text) == [status |-> "ok", reason |-> text]
Propagated(class) == [status |-> class, reason |-> "raised"]

ErrorExecutingTool == "Error executing tool"
NoExecutableFunction == "Error: No executable function found in tool code."
ExecutedSuccessfully == "Tool executed successfully."

\* except Exception as e: the classes it catches
Caught(out) ==
    IF out.kind = "Exception" THEN Returned(ErrorExecutingTool)
    ELSE Propagated(out.value)

\* execute_custom_tool(**kwargs) of the executor made from fn_code
ExecuteCustomTool(fn_code, t_name, kwargs) ==
    LET ran == ExecSource(fn_code)
        func == FindFunction(fn_code, t_name)
    IN  IF ran.kind # "value" THEN Caught(ran)
        ELSE IF IsNone(func) THEN Returned(NoExecutableFunction)
        ELSE LET result == CallFunction(fn_code, Val(func), kwargs)
             IN  IF result.kind # "value" THEN Caught(result)
                 ELSE IF ~result.none THEN Returned(result.value)
                 ELSE Returned(ExecutedSuccessfully)

\* a request runs the executor the cache holds under a name
execute_custom_tool(name, kwargs) ==
    /\ name \in DOMAIN cache
    /\ last' = Call("execute_custom_tool", name, Some(kwargs),
                    ExecuteCustomTool(cache[name].function_code, cache[name].name,
                                      kwargs))
    /\ UNCHANGED <<cfgVars, toolVars, clock, runVars>>

NextExecutor ==
    \/ \E src \in ExecutorSources :
           clock < MaxClock /\ create_tool(Ta, "new", TRUE, None, Some(src), None)
    \/ clock < MaxClock /\ delete_tool(Ta)
    \/ get_custom_tools
    \/ \E kwargs \in KwargInputs : execute_custom_tool(Ta, kwargs)

SpecExecutor == Init /\ [][NextExecutor]_vars

---------------------------------------------------------------------------
(* Claim about the executor, checked under SpecExecutor *)

\* what running the source of the executor comes to: it fails to evaluate,
\* defines no function, or its function returns or raises
SourceOutcome(fn_code, kwargs) ==
    IF ExecSource(fn_code).kind # "value" THEN ExecSource(fn_code)
    ELSE IF DefinedFunctions(fn_code) = {} THEN PyException("no function")
    ELSE CallFunction(fn_code, CHOOSE i \in DefinedFunctions(fn_code) :
                                   \A j \in DefinedFunctions(fn_code) : i <= j, kwargs)

ErrorTexts == {ErrorExecutingTool, NoExecutableFunction}

ExecutorReturnsText ==
    last'.op = "execute_custom_tool" =>
        LET out == SourceOutcome(cache[last'.id].function_code, Val(last'.version)) IN
        /\ last'.status = "ok"
        /\ (out.kind = "value" /\ ~out.none) => last'.reason = out.value
        /\ out.kind # "value" => last'.reason \in ErrorTexts

\* C26: the executor of a synthesized tool never raises: it returns the
\* string form of what the function returns, and an error text when the
\* source fails to evaluate, defines no function to call, or the function
\* raises. (For a function that returns None the formula asks for a text
\* and no more: the executor answers with a fixed text of its own.)
C26_ExecutorNeverRaises == [][ExecutorReturnsText]_vars

---------------------------------------------------------------------------
(* The LLM clients: create_llm_for_model on several request threads. The
   function takes no lock: the test of _llm_cache and the store into it are
   two statements of a thread *)

MaxClients == 2

\* os.getenv("OLLAMA_API_MODEL", ...) and model_params.get("temperature", 0.7)
OLLAMA_API_MODEL == "gpt-oss:20b-cloud"
DefaultTemperature == "0.7"

\* dict.get(key, default) on a dict kept as the set of its items
ParamGet(params, key, default) ==
    IF \E kv \in params : kv[1] = key
    THEN (CHOOSE kv \in params : kv[1] = key)[2] ELSE default

\* base_model, temperature, max_tokens and top_p of the model of the request
LlmConfig(model) ==
    [base_model |-> IF IsNone(model.base_model) THEN OLLAMA_API_MODEL
                    ELSE Val(model.base_model),
     temperature |-> ParamGet(model.model_params, "temperature", DefaultTemperature),
     max_tokens |-> ParamGet(model.model_params, "max_tokens", None),
     top_p |-> ParamGet(model.model_params, "top_p", None)]

\* json.dumps(cache_key_data, sort_keys=True): the four values as text, in the
\* order of their keys; the md5 digest is one text for one JSON text
CacheKey(config) ==
    <<ToString(config.base_model), ToString(config.max_tokens),
      ToString(config.temperature), ToString(config.top_p)>>

\* a thread that asks for no client
IdleClientCaller == [pc |-> "idle", config |-> <<>>, key |-> <<>>, made |-> 0, got |-> <<>>]

\* ChatOpenAI(**llm_kwargs): a new object, made by thread w from the config
ChatOpenAI(w, config) ==
    [model |-> config.base_model, temperature |-> config.temperature,
     max_tokens |-> config.max_tokens, top_p |-> config.top_p,
     object |-> <<w, workers[w].made + 1>>]

\* the thread reads the model of the request and computes the cache key
llm_cache_key(w, model_id) ==
    LET config == LlmConfig(ModelForRequest(models, active_models, model_id)) IN
    /\ workers[w].pc \in {"idle", "done"}
    /\ workers[w].made < MaxClients
    /\ workers' = [workers EXCEPT ![w].pc = "test", ![w].config = config,
                                  ![w].key = CacheKey(config), ![w].got = <<>>]
    /\ UNCHANGED <<cfgVars, toolVars, clock, config_store, locks, start, llm_cache, last>>

\* if cache_key in _llm_cache: return _llm_cache[cache_key]
llm_cache_test(w) ==
    /\ workers[w].pc = "test"
    /\ workers' = IF workers[w].key \in DOMAIN llm_cache
                  THEN [workers EXCEPT ![w].pc = "done",
                                       ![w].got = Some(llm_cache[workers[w].key])]
                  ELSE [workers EXCEPT ![w].pc = "create"]
    /\ UNCHANGED <<cfgVars, toolVars, clock, config_store, locks, start, llm_cache, last>>

\* llm = ChatOpenAI(**llm_kwargs); _llm_cache[cache_key] = llm; return llm
llm_cache_store(w) ==
    LET llm == ChatOpenAI(w, workers[w].config) IN
    /\ workers[w].pc = "create"
    /\ llm_cache' = Put(llm_cache, workers[w].key, llm)
    /\ workers' = [workers EXCEPT ![w].pc = "done", ![w].got = Some(llm),
                                  ![w].made = @ + 1]
    /\ UNCHANGED <<cfgVars, toolVars, clock, config_store, locks, start, last>>

\* the settings the model is given between the requests
LlmCfgInputs ==
    {[NoCfg EXCEPT !.params = Some({<<"temperature", 1>>})],
     [NoCfg EXCEPT !.params = Some({<<"temperature", 1>>, <<"top_p", 1>>})],
     [NoCfg EXCEPT !.base = Some("llama3")],
     [NoCfg EXCEPT !.params = Some({})]}

InitClients ==
    /\ InitConfig
    /\ InitTools
    /\ clock = 0
    /\ config_store = Some(1)
    /\ locks = <<0>>
    /\ workers = [w \in Threads |-> IdleClientCaller]
    /\ start = <<>>
    /\ llm_cache = <<>>
    /\ last = Call("init", NoId, None, Ok)

NextClients ==
    \/ \E c \in LlmCfgInputs : update_model(DEFAULT_MODEL_ID, None, None, c, None)
    \/ \E w \in Threads, id \in {None, Some(ModelIdText(DEFAULT_MODEL_ID))} :
           llm_cache_key(w, id)
    \/ \E w \in Threads : llm_cache_test(w)
    \/ \E w \in Threads : llm_cache_store(w)

SpecClients == InitClients /\ [][NextClients]_vars

---------------------------------------------------------------------------
(* Claim about the LLM clients, checked under SpecClients *)

Answered(w) == workers[w].pc = "done"

\* the four values that make the key, of the request and of a client
ConfigOf(llm) ==
    [base_model |-> llm.model, temperature |-> llm.temperature,
     max_tokens |-> llm.max_tokens, top_p |-> llm.top_p]

\* the values are numbers, texts or None: two configs are equal when they
\* are written the same
SameConfig(a, b) == ToString(a) = ToString(b)

\* C27: the requests with one (base_model, temperature, max_tokens, top_p)
\* get one and the same client object, also when their first requests run
\* at the same time on different threads, and no request gets a client made
\* for other values
C27_OneClientPerConfig ==
    /\ \A w \in Threads :
           Answered(w) => SameConfig(ConfigOf(Val(workers[w].got)), workers[w].config)
    /\ \A v, w \in Threads :
           (Answered(v) /\ Answered(w) /\ SameConfig(workers[v].config, workers[w].config))
               => Val(workers[v].got).object = Val(workers[w].got).object

---------------------------------------------------------------------------
(* compare_versions on versions with components of one and two digits *)

CompareMajors == {<<1>>, <<2>>}
CompareMinors == {<<0>>, <<9>>, <<1, 0>>}
ComparePatches == {<<0>>, <<9>>}

CompareInputs ==
    {<<a, b, c>> : a \in CompareMajors, b \in CompareMinors, c \in ComparePatches}

\* a call of compare_versions and what it returns
compare_versions_call(v1, v2) ==
    /\ ~IsNone(validate_version(v1)) /\ ~IsNone(validate_version(v2))
    /\ last' = [op |-> "compare_versions", id |-> v1, version |-> Some(v2),
                status |-> "ok", reason |-> "", result |-> compare_versions(v1, v2)]
    /\ UNCHANGED <<cfgVars, toolVars, clock, runVars>>

NextCompare == \E v1, v2 \in CompareInputs : compare_versions_call(v1, v2)

SpecCompare == Init /\ [][NextCompare]_vars

---------------------------------------------------------------------------
(* Claim about compare_versions, checked under SpecCompare *)

Sign(n) == IF n < 0 THEN -1 ELSE IF n > 0 THEN 1 ELSE 0

ComparesAsIntegerTriples ==
    last'.op = "compare_versions" =>
        LET a == last'.id
            b == Val(last'.version)
            r == last'.result
        IN  /\ r < 0 <=> TripleLess(Triple(a), Triple(b))
            /\ r = 0 <=> Triple(a) = Triple(b)
            /\ r > 0 <=> TripleLess(Triple(b), Triple(a))
            /\ Sign(compare_versions(b, a)) = -Sign(r)
            /\ \A c \in CompareInputs :
                   (r <= 0 /\ compare_versions(b, c) <= 0)
                       => compare_versions(a, c) <= 0

\* C28: compare_versions(a, b) is negative, zero or positive as the integer
\* triple (MAJOR, MINOR, PATCH) of a is below, equal to or above that of b in
\* lexicographic order, for all valid versions: it is antisymmetric and
\* transitive, zero only for equal triples, and compares the components as
\* integers, not as texts
C28_ComparesAsIntegerTriples == [][ComparesAsIntegerTriples]_vars

\* 1.9.0 has been compared with 1.10.0 and came out below it
C28_Witness ==
    /\ last.op = "compare_versions"
    /\ last.id = << <<1>>, <<9>>, <<0>> >>
    /\ last.version = Some(<< <<1>>, <<1, 0>>, <<0>> >>)
    /\ last.result < 0

---------------------------------------------------------------------------
(* get_version_history: the versions of a model, newest first *)

\* the sort key of a version: [int(x) for x in v.version.split(".")]
SortKey(v) == [i \in 1..Len(v) |-> IntOf(v[i])]

\* list comparison of two keys of three integers
KeyLess(a, b) ==
    \/ a[1] < b[1]
    \/ a[1] = b[1] /\ a[2] < b[2]
    \/ a[1] = b[1] /\ a[2] = b[2] /\ a[3] < b[3]

\* versions.sort(key=..., reverse=True) on the version rows vs of a model
RECURSIVE SortNewestFirst(_)
SortNewestFirst(vs) ==
    IF vs = {} THEN <<>>
    ELSE LET top == CHOOSE x \in vs : \A y \in vs : ~KeyLess(SortKey(x), SortKey(y))
         IN  <<top>> \o SortNewestFirst(vs \ {top})

\* get_version_history: the versions it returns, or the KeyError it raises
get_version_history(model_id) ==
    LET found == get_model(models, model_id) IN
    /\ last' = IF found = {}
               THEN [op |-> "get_version_history", id |-> model_id, version |-> None,
                     status |-> "KeyError", reason |-> "model", result |-> <<>>]
               ELSE [op |-> "get_version_history", id |-> model_id, version |-> None,
                     status |-> "ok", reason |-> "",
                     result |-> SortNewestFirst(
                         version_history(models[CHOOSE i \in found : TRUE]))]
    /\ UNCHANGED <<cfgVars, toolVars, clock, runVars>>

\* 01.0.0: a version the pattern accepts, with the integers of 1.0.0
V01_0_0 == << <<0, 1>>, <<0>>, <<0>> >>

HistoryVersions == {Ver(0, 1, 0), Ver(1, 0, 0), Ver(1, 1, 0), Ver(2, 0, 0), V01_0_0}

HistoryIds == {ModelIdText(DEFAULT_MODEL_ID), ModelIdText(1)}

NextHistory ==
    \/ \E v \in HistoryVersions :
           VersionRoom /\ create_model_version(DEFAULT_MODEL_ID, v, TRUE, NoCfg)
    \/ \E v \in HistoryVersions :
           update_model(DEFAULT_MODEL_ID, None, None, NoCfg, Some(v))
    \/ \E id \in HistoryIds : get_version_history(id)

SpecHistory == Init /\ [][NextHistory]_vars

---------------------------------------------------------------------------
(* Claim about get_version_history, checked under SpecHistory *)

HistoryIsNewestFirst ==
    last'.op = "get_version_history" =>
        IF get_model(models, last'.id) = {} THEN last'.status = "KeyError"
        ELSE LET m == models[CHOOSE i \in get_model(models, last'.id) : TRUE]
                 res == last'.result
             IN  /\ last'.status = "ok"
                 /\ Range(res) = version_history(m)
                 /\ Len(res) = Cardinality(version_history(m))
                 /\ \A i, j \in 1..Len(res) :
                        i < j => TripleLess(Triple(res[j]), Triple(res[i]))

\* C29: get_version_history returns every version of the model's history
\* exactly once, in strictly descending order of the integer triples,
\* whatever the order the versions were created in, and fails with KeyError
\* for an unknown model
C29_HistoryIsNewestFirst == [][HistoryIsNewestFirst]_vars

---------------------------------------------------------------------------
(* Names of models and tools: creates and renames with names of every shape *)

RuleNameInputs ==
    {<<"a">>, <<"a", "b">>, <<"a", "_">>, <<"A", "b">>, <<"_", "b">>, <<" ", "a", "b">>}

NextNames ==
    \/ \E n \in RuleNameInputs : create_model(n, TRUE, NoCfg, V100)
    \/ \E id \in IdInputs, n \in RuleNameInputs :
           update_model(id, Some(n), None, NoCfg, None)
    \/ \E n \in RuleNameInputs \cup {<<>>} :
           clock < MaxClock /\ create_tool(n, "new", TRUE, None, None, None)
    \/ \E n \in RuleNameInputs \cup {<<>>} :
           /\ clock < MaxClock
           /\ update_tool(NewToolId(1), Some(n), None, None, None, None, None)

SpecNames == Init /\ [][NextNames]_vars

---------------------------------------------------------------------------
(* Claim about the names of models and tools, checked under SpecNames *)

\* ^[a-z][a-z0-9_-]{1,63}$
FollowsNameRule(s) ==
    /\ Len(s) >= MODEL_NAME_MIN_LENGTH
    /\ Len(s) <= MODEL_NAME_MAX_LENGTH
    /\ s[1] \in LowerLetters
    /\ \A i \in 2..Len(s) : s[i] \in LowerLetters \cup NameDigits \cup {"_", "-"}

StoredNamesFollowRule ==
    /\ \A id \in DOMAIN models : FollowsNameRule(models[id].name)
    /\ \A id \in DOMAIN tools : FollowsNameRule(tools[id].name)

\* the names outside the rule; a model name is read as ConfigStore reads it,
\* without the blanks around it and in lower case
BadToolNames == {n \in RuleNameInputs \cup {<<>>} : ~FollowsNameRule(n)}
BadModelNames == {n \in RuleNameInputs : ~FollowsNameRule(Lower(Strip(n)))}

BadNameStoresNothing ==
    /\ \A n \in BadModelNames :
           (\/ last'.op = "create_model" /\ create_model(n, TRUE, NoCfg, V100)
            \/ /\ last'.op = "update_model"
               /\ \E id \in IdInputs : update_model(id, Some(n), None, NoCfg, None))
               => (last'.status \in {"ValueError", "KeyError"} /\ models' = models)
    /\ \A n \in BadToolNames :
           (\/ /\ last'.op = "create_tool"
               /\ create_tool(n, "new", TRUE, None, None, None)
            \/ /\ last'.op = "update_tool"
               /\ update_tool(NewToolId(1), Some(n), None, None, None, None, None))
               => (last'.status \in {"ValueError", "KeyError"} /\ tools' = tools)

\* C30: every stored model name and tool name is lower-case, starts with a
\* letter, holds only a-z, 0-9, "_" and "-", and is 2 to 64 characters long,
\* after any sequence of creates and renames; a create or rename with a name
\* outside the rule fails with a validation error and stores nothing
C30_StoredNamesFollowRule ==
    /\ []StoredNamesFollowRule
    /\ [][BadNameStoresNothing]_vars


---------------------------------------------------------------------------
(* The input schema of a synthesized tool: graph.py _create_dynamic_tool *)

TypeNames ==
    [string |-> {<<"s", "t", "r">>, <<"s", "t", "r", "i", "n", "g">>},
     integer |-> {<<"i", "n", "t">>, <<"i", "n", "t", "e", "g", "e", "r">>},
     number |-> {<<"f", "l", "o", "a", "t">>, <<"n", "u", "m", "b", "e", "r">>},
     boolean |-> {<<"b", "o", "o", "l">>, <<"b", "o", "o", "l", "e", "a", "n">>},
     array |-> {<<"l", "i", "s", "t">>, <<"a", "r", "r", "a", "y">>},
     object |-> {<<"d", "i", "c", "t">>, <<"o", "b", "j", "e", "c", "t">>}]

\* the parameter type read off an annotation: the lower-cased name is looked up
\* and anything else, or no annotation, gives string
InferredType(annotation) ==
    IF IsNone(annotation) THEN "string"
    ELSE LET type_name == Lower(Val(annotation)) IN
         IF \E t \in DOMAIN TypeNames : type_name \in TypeNames[t]
         THEN CHOOSE t \in DOMAIN TypeNames : type_name \in TypeNames[t]
         ELSE "string"

InferredParam(name, ptype, required) ==
    [name |-> name, type |-> ptype, required |-> required]

\* the first FunctionDef that ast.walk meets
RECURSIVE FirstDefLine(_)
FirstDefLine(code) ==
    IF code = <<>> THEN None
    ELSE IF IsDefLine(Head(code)) THEN Some(Head(code))
    ELSE FirstDefLine(Tail(code))

InferParameters(code) ==
    IF IsNone(FirstDefLine(code)) THEN <<>>
    ELSE LET args == PositionalArgs(Val(FirstDefLine(code))) IN
         [i \in 1..Len(args) |->
             InferredParam(args[i].name, InferredType(args[i].annotation), TRUE)]

\* a stored parameter carries its name; ToolStore._db_to_pydantic fills in the
\* type string and required
ToolParameters(config) ==
    IF IsNone(config.parameters) THEN <<>>
    ELSE [i \in 1..Len(Val(config.parameters)) |->
             InferredParam(Val(config.parameters)[i], "string", TRUE)]

DynamicToolParameters(config) ==
    IF ToolParameters(config) # <<>> THEN ToolParameters(config)
    ELSE InferParameters(Val(config.function_code))

\* type_mapping.get(param_type, str), by the name the JSON schema gives the type
type_mapping(param_type) ==
    IF param_type \in {"string", "number", "integer", "boolean", "array", "object"}
    THEN param_type ELSE "string"

\* field_definitions: one field per parameter name, the later of two equal
\* names winning
FieldDefinitions(parameters) ==
    [n \in {parameters[i].name : i \in 1..Len(parameters)} |->
        LET i == CHOOSE j \in 1..Len(parameters) :
                     /\ parameters[j].name = n
                     /\ \A k \in (j + 1)..Len(parameters) : parameters[k].name # n
        IN [type |-> type_mapping(parameters[i].type),
            required |-> parameters[i].required]]

\* _create_dynamic_tool(tool_config), as far as the args schema
create_dynamic_tool(key) ==
    /\ key \in DOMAIN tools
    /\ LET tool_config == tools[key] IN
       last' = [op |-> "_create_dynamic_tool", id |-> key, version |-> None,
                status |-> IF ~Truthy(tool_config.function_code) THEN "none"
                           ELSE IF SynthRaises(tool_config) THEN "raised"
                           ELSE "ok",
                reason |-> "",
                result |-> IF Truthy(tool_config.function_code)
                              /\ ~SynthRaises(tool_config)
                           THEN FieldDefinitions(DynamicToolParameters(tool_config))
                           ELSE <<>>]
    /\ UNCHANGED <<cfgVars, toolVars, clock, runVars>>

SrcInt == <<"def f(n: int):", "return n">>
SrcFloatBool == <<"def f(a: float, b: bool):", "return a">>
SrcListDictStr == <<"def f(c: list, d: dict, s: str):", "return s">>
SrcTwoDefs == <<"def f(n: int):", "return n", "def g(y):", "return y">>
SrcKeywordOnly == <<"def f(x, *, k: int):", "return k">>

SchemaSources ==
    {Src1, SrcInt, SrcFloatBool, SrcListDictStr, SrcTwoDefs, SrcKeywordOnly,
     SrcNoFunction}

ParamN == << <<"n">> >>
ParamY == << <<"y">> >>

NextSchema ==
    \/ \E src \in SchemaSources, p \in {None, Some(<<>>), Some(ParamY), Some(ParamN)} :
           clock < MaxClock /\ create_tool(Ta, "new", TRUE, None, Some(src), p)
    \/ clock < MaxClock /\ delete_tool(Ta)
    \/ \E key \in DOMAIN tools : create_dynamic_tool(key)

SpecSchema == Init /\ [][NextSchema]_vars

\* what the annotation of an argument stands for
AnnotatedType(annotation) ==
    IF IsNone(annotation) THEN "string"
    ELSE CHOOSE t \in DOMAIN TypeNames : Val(annotation) \in TypeNames[t]

\* the schema with one required field per argument of a def line
SchemaOfArguments(l) ==
    [n \in {Arguments(l)[i].name : i \in 1..Len(Arguments(l))} |->
        LET a == CHOOSE b \in Range(Arguments(l)) : b.name = n
        IN [type |-> AnnotatedType(a.annotation), required |-> TRUE]]

SchemaFollowsParametersOrSignature ==
    (last'.op = "_create_dynamic_tool" /\ last'.status = "ok") =>
        LET tool_config == tools[last'.id] IN
        IF Truthy(tool_config.parameters)
        THEN DOMAIN last'.result = Range(Val(tool_config.parameters))
        ELSE ~IsNone(FirstDefLine(Val(tool_config.function_code))) =>
                 last'.result =
                     SchemaOfArguments(Val(FirstDefLine(Val(tool_config.function_code))))

\* C31: with a non-empty parameters list the schema of a synthesized tool has
\* exactly the listed parameters; with an empty one it has one required field
\* per argument of the first function the source defines, typed by the
\* argument's annotation (int integer, float number, bool boolean, list array,
\* dict object, str string) and string when there is no annotation
C31_SchemaFollowsParametersOrSignature == [][SchemaFollowsParametersOrSignature]_vars


---------------------------------------------------------------------------
(* Identifiers that are a name, an id, or both *)

\* a model may be named like the id of another model
IdentifierNames == {<<"a", "a">>, <<"a", "_">>, ModelIdText(DEFAULT_MODEL_ID)}

NameOrIdInputs ==
    LET heads == IdentifierNames
                     \cup {<<"A", "A">>, <<"%">>, <<"z", "z">>, DefaultModelName}
                     \cup {ModelIdText(id) : id \in IdInputs}
    IN  {<<h>> : h \in heads} \cup {<<h, v>> : h \in heads, v \in {V100, V110, V010}}

NextIdentifier ==
    \/ \E n \in IdentifierNames : create_model(n, TRUE, NoCfg, V100)
    \/ \E id \in IdInputs : VersionRoom /\ create_model_version(id, V110, TRUE, NoCfg)
    \/ \E id \in IdInputs : update_model(id, None, None, NoCfg, Some(V010))
    \/ \E id \in NewIds : delete_model(id)
    \/ \E identifier \in NameOrIdInputs : resolve_model_config(identifier)

SpecIdentifier == Init /\ [][NextIdentifier]_vars

\* the version view of a model's current fields
CurrentView(model) ==
    VersionRow(model.enabled, model.rag_settings, model.tool_names,
               model.base_model, model.model_params)

ResolvesNameFirst(identifier) ==
    LET head == identifier[1]
        named == {id \in DOMAIN models : Lower(models[id].name) = Lower(head)}
        expected == IF named # {} THEN named ELSE get_model(models, head)
        result == resolve_model_identifier(models, identifier)
    IN  IF expected = {} THEN result = Unresolved
        ELSE \E id \in expected :
                 IF Len(identifier) = 1 THEN result = Resolved(id, None)
                 ELSE IF identifier[2] \in version_history(models[id])
                      THEN result = Resolved(id, Some(models[id].versions[identifier[2]]))
                 ELSE IF identifier[2] = models[id].version
                      THEN result = Resolved(id, Some(CurrentView(models[id])))
                 ELSE result = Unresolved

\* C32: an identifier resolves to the model whose name equals its first piece
\* ignoring letter case and, only when no model has that name, to the model
\* whose id is that piece; a version that is the model's current version but
\* has no row in the version history resolves to a view of the model's current
\* fields
C32_ResolvesNameFirst ==
    \A identifier \in NameOrIdInputs : ResolvesNameFirst(identifier)


---------------------------------------------------------------------------
(* Models, versions and the active set together *)

RagCfg == [NoCfg EXCEPT !.rag = Some(AltRag)]

NextVersions ==
    \/ \E e \in BOOLEAN : create_model(FixedName, e, NoCfg, V100)
    \/ \E id \in IdInputs, v \in {V110, V010}, e \in BOOLEAN, c \in {NoCfg, RagCfg} :
           VersionRoom /\ create_model_version(id, v, e, c)
    \/ \E id \in IdInputs, v \in {V100, V110} : activate_model_version(id, v)
    \/ \E id \in IdInputs, v \in {V100, V110} : deactivate_model_version(id, v)
    \/ \E id \in IdInputs, c \in {NoCfg, RagCfg}, v \in {None, Some(V010)} :
           update_model(id, None, None, c, v)
    \/ \E id \in IdInputs : PriorityRoom /\ activate_model(id)
    \/ \E id \in IdInputs : remove_active_model(id)
    \/ \E id \in IdInputs : delete_model(id)

SpecVersions == Init /\ [][NextVersions]_vars

VersionsOnlyChangeEnabled ==
    \A id \in DOMAIN models \cap DOMAIN models' :
        \A v \in version_history(models[id]) :
            /\ v \in version_history(models'[id])
            /\ [models'[id].versions[v] EXCEPT
                    !.enabled = models[id].versions[v].enabled] = models[id].versions[v]
            /\ models'[id].versions[v].enabled # models[id].versions[v].enabled
                   => /\ last'.op \in {"activate_version", "deactivate_version"}
                      /\ last'.id = id
                      /\ last'.version = v

\* C33: a version row stays in its model's history until the model is deleted
\* and keeps every field but enabled: update_model, create_version,
\* activate_model and remove_active_model change no existing version row, and
\* activate_version and deactivate_version change only the enabled flag of the
\* version they name
C33_VersionsOnlyChangeEnabled == [][VersionsOnlyChangeEnabled]_vars

\* a version has been deactivated in a model that was updated after the
\* version was created
C33_Witness ==
    /\ last.op = "deactivate_version" /\ last.status = "ok"
    /\ ~models[last.id].versions[last.version].enabled
    /\ models[last.id].rag_settings # models[last.id].versions[last.version].rag_settings


---------------------------------------------------------------------------
(* Which function of the source the executor calls *)

SrcAllNames ==
    <<"def helper():", "return 'other'", "def execute():", "return 'execute'",
      "def run():", "return 'run'", "def main():", "return 'main'",
      "def ta():", "return 'named'">>
SrcMainRunExecute ==
    <<"def helper():", "return 'other'", "def execute():", "return 'execute'",
      "def run():", "return 'run'", "def main():", "return 'main'">>
SrcRunExecute ==
    <<"def helper():", "return 'other'", "def execute():", "return 'execute'",
      "def run():", "return 'run'">>
SrcExecute == <<"def helper():", "return 'other'", "def execute():", "return 'execute'">>
SrcPrivateFirst ==
    <<"def _private():", "return 'hidden'", "def helper():", "return 'other'">>
SrcPrivateOnly == <<"def _private():", "return 'hidden'">>
SrcMainIsValue == <<"main = 5", "def helper():", "return 'other'">>

PickSources ==
    {SrcAllNames, SrcMainRunExecute, SrcRunExecute, SrcExecute, SrcPrivateFirst,
     SrcPrivateOnly, SrcMainIsValue, SrcNoFunction}

NextPick ==
    \/ \E n \in {Ta, Tb}, src \in PickSources :
           clock < MaxClock /\ create_tool(n, "new", TRUE, None, Some(src), None)
    \/ \E n \in {Ta, Tb} : clock < MaxClock /\ delete_tool(n)
    \/ get_custom_tools
    \/ \E n \in {Ta, Tb} : execute_custom_tool(n, NoKwargs)

SpecPick == Init /\ [][NextPick]_vars

\* the names the executor tries in turn before it takes any public callable
PreferredNames(t_name) ==
    <<t_name, <<"m", "a", "i", "n">>, <<"r", "u", "n">>,
      <<"e", "x", "e", "c", "u", "t", "e">>>>

PickIsFirstMatch ==
    last'.op = "execute_custom_tool" =>
        LET code == cache[last'.id].function_code
            IsCallable(n) == \E i \in DefinedFunctions(code) :
                                 /\ FunctionName(code[i]) = n
                                 /\ LocalNamed(code, n) = Some(i)
            preferred == PreferredNames(cache[last'.id].name)
            hits == {k \in 1..Len(preferred) : IsCallable(preferred[k])}
            public == {i \in DefinedFunctions(code) :
                          /\ IsCallable(FunctionName(code[i]))
                          /\ FunctionName(code[i])[1] # "_"}
            body(i) == CallFunction(code, i, Val(last'.version)).value
        IN  IF hits # {}
            THEN LET k == CHOOSE h \in hits : \A g \in hits : h <= g IN
                 last'.reason = body(Val(LocalNamed(code, preferred[k])))
            ELSE IF public # {}
            THEN last'.reason = body(CHOOSE i \in public : \A j \in public : i <= j)
            ELSE last'.reason = NoExecutableFunction

\* C34: the executor calls the callable named like the tool, else main, else
\* run, else execute, else the first callable the source defines whose name
\* has no leading underscore, and when there is none it returns the
\* no-function error text without calling anything
C34_PickIsFirstMatch == [][PickIsFirstMatch]_vars

\* run was called although helper and execute are defined before it
C34_Witness ==
    /\ last.op = "execute_custom_tool"
    /\ last.reason = "return 'run'"
    /\ cache[last.id].function_code = SrcRunExecute


---------------------------------------------------------------------------
(* activate_model commit by commit, beside readers that take no lock *)

IdleActivator == [pc |-> "idle", id |-> NoId]

\* with self._lock: the model is looked up and, when it is active already,
\* its row is deleted and the deletion committed
activate_model_delete(w, id) ==
    /\ workers[w].pc = "idle"
    /\ locks[1] = 0
    /\ IF id \in DOMAIN models
       THEN /\ active_models' = Drop(active_models, id)
            /\ workers' = [workers EXCEPT ![w] = [pc |-> "insert", id |-> id]]
            /\ locks' = [locks EXCEPT ![1] = w]
            /\ last' = last
       ELSE /\ last' = Call("activate_model", id, None, Outcome("KeyError", "model"))
            /\ UNCHANGED <<active_models, workers, locks>>
    /\ UNCHANGED <<models, toolVars, clock, config_store, start, llm_cache>>

\* the row is inserted one below the lowest priority and committed, and the
\* lock is released
activate_model_insert(w) ==
    LET min_priority == MinPriority(active_models)
        new_priority == IF IsNone(min_priority) THEN 0 ELSE Val(min_priority) - 1
    IN  /\ workers[w].pc = "insert"
        /\ active_models' = Put(active_models, workers[w].id, new_priority)
        /\ workers' = [workers EXCEPT ![w] = IdleActivator]
        /\ locks' = [locks EXCEPT ![1] = 0]
        /\ last' = Call("activate_model", workers[w].id, None, Ok)
        /\ UNCHANGED <<models, toolVars, clock, config_store, start, llm_cache>>

\* ORDER BY priority over the rows of active_models
RECURSIVE ByPriority(_)
ByPriority(act) ==
    IF DOMAIN act = {} THEN <<>>
    ELSE LET i == CHOOSE k \in DOMAIN act : \A j \in DOMAIN act : act[k] <= act[j]
         IN  <<i>> \o ByPriority(Drop(act, i))

\* the active_model_ids property, read without the lock: the ids by priority,
\* and with no row in the table any one model the unordered LIMIT 1 returns
active_model_ids ==
    /\ \E first_model \in DOMAIN models \cup {NoId} :
           /\ first_model = NoId => DOMAIN models = {}
           /\ first_model # NoId => DOMAIN models # {}
           /\ last' = [op |-> "active_model_ids", id |-> NoId, version |-> None,
                       status |-> "ok", reason |-> "",
                       result |-> IF DOMAIN active_models # {}
                                  THEN ByPriority(active_models)
                                  ELSE IF first_model # NoId THEN <<first_model>>
                                  ELSE <<>>]
    /\ UNCHANGED <<cfgVars, toolVars, clock, runVars>>

InitPromote ==
    /\ InitConfig
    /\ InitTools
    /\ clock = 0
    /\ config_store = Some(1)
    /\ locks = <<0>>
    /\ workers = [w \in Threads |-> IdleActivator]
    /\ start = <<>>
    /\ llm_cache = <<>>
    /\ last = Call("init", NoId, None, Ok)

NextPromote ==
    \/ locks[1] = 0 /\ create_model(FixedName, TRUE, NoCfg, V100)
    \/ \E w \in Threads, id \in IdInputs : PriorityRoom /\ activate_model_delete(w, id)
    \/ \E w \in Threads : activate_model_insert(w)
    \/ \E id \in IdInputs : locks[1] = 0 /\ remove_active_model(id)
    \/ \E id \in IdInputs : locks[1] = 0 /\ delete_model(id)
    \/ active_model_ids

SpecPromote == InitPromote /\ [][NextPromote]_vars

CommittedActiveSetNonEmpty == DOMAIN models # {} => DOMAIN active_models # {}

ReaderSeesActiveModels ==
    (last'.op = "active_model_ids" /\ DOMAIN models # {}) =>
        /\ last'.result # <<>>
        /\ Range(last'.result) \subseteq DOMAIN active_models

\* C35: at every committed state, also between the commits of one
\* activate_model call, the active model set is non-empty while a model exists,
\* so a reader that takes no lock is never handed an empty set or a model that
\* is not active
C35_NonEmptyAtEveryCommit ==
    []CommittedActiveSetNonEmpty /\ [][ReaderSeesActiveModels]_vars


---------------------------------------------------------------------------
(* The configuration a chat request runs with *)

\* chat_completions: _resolve_model_config gives the model id, and the tools,
\* the RAG settings and the LLM are then taken from get_model(model_id)
chat_request(request_model) ==
    LET out == ResolveModelConfig(models, request_model) IN
    /\ last' = [op |-> "chat", id |-> out.id, version |-> request_model,
                status |-> out.status, reason |-> out.reason,
                result |-> IF out.status = "ok" /\ out.id # NoId
                           THEN [rag_settings |-> models[out.id].rag_settings,
                                 tool_names |-> models[out.id].tool_names,
                                 base_model |-> models[out.id].base_model,
                                 model_params |-> models[out.id].model_params]
                           ELSE <<>>]
    /\ UNCHANGED <<cfgVars, toolVars, clock, runVars>>

RequestInputs ==
    {<<n>> : n \in {FixedName, DefaultModelName}}
        \cup {<<n, v>> : n \in {FixedName, DefaultModelName}, v \in {V100, V110}}

NextRequest ==
    \/ create_model(FixedName, TRUE, NoCfg, V100)
    \/ \E id \in IdInputs, c \in {NoCfg, RagCfg} :
           VersionRoom /\ create_model_version(id, V110, TRUE, c)
    \/ \E id \in IdInputs, v \in {V100, V110} : activate_model_version(id, v)
    \/ \E id \in IdInputs, v \in {V100, V110} : deactivate_model_version(id, v)
    \/ \E request_model \in RequestInputs : chat_request(request_model)

SpecRequest == Init /\ [][NextRequest]_vars

RequestUsesRequestedVersion ==
    (/\ last'.op = "chat"
     /\ last'.status = "ok"
     /\ last'.id # NoId
     /\ Len(last'.version) > 1) =>
        LET row == models[last'.id].versions[last'.version[2]] IN
        /\ last'.result.rag_settings = row.rag_settings
        /\ last'.result.tool_names = row.tool_names
        /\ last'.result.base_model = row.base_model
        /\ last'.result.model_params = row.model_params

\* C36: a request for name@v with v an active version runs with the tool
\* names, RAG settings, base model and LLM parameters of version v, also when
\* the model's current version is another one
C36_RequestUsesRequestedVersion == [][RequestUsesRequestedVersion]_vars


---------------------------------------------------------------------------
(* Claims about versions and the active sets, checked under SpecVersions *)

\* C37: in every reachable state a version row is enabled exactly when its
\* version is in the model's active_versions, also right after a create_model
\* or create_version call with enabled = false
C37_EnabledIffActive ==
    \A id \in DOMAIN models :
        \A v \in version_history(models[id]) :
            models[id].versions[v].enabled <=> v \in Range(models[id].active_versions)


---------------------------------------------------------------------------
(* The tools a request gets and the enabled flags of the registry *)

\* the tools get_active_tools(model_id) returns, after its reconciliation
ResolvedTools(model_id, c) ==
    ActiveTools(ModelForRequest(models, active_models, model_id).tool_names,
                AllRegisteredTools(c))

ResolvedToolsAreEnabled ==
    (last'.op = "get_active_tools" /\ last'.status = "ok") =>
        \A t \in Range(ResolvedTools(last'.id, cache')) :
            \A k \in DOMAIN tools : tools[k].name = t.name => tools[k].enabled

\* C38: the tools a request is given, built-in or custom, are enabled in the
\* registry: a tool that update_tool has disabled is left out by the
\* reconciliation the request runs, also when the model's tool_names still
\* lists it
C38_ResolvedToolsAreEnabled == [][ResolvedToolsAreEnabled]_vars


ActiveVersionsWellFormed ==
    \A id \in DOMAIN models :
        LET active == models[id].active_versions IN
        /\ \A i, j \in 1..Len(active) : active[i] = active[j] => i = j
        /\ Range(active) \subseteq version_history(models[id])

ActivateIsIdempotent ==
    (/\ last'.op = "activate_version"
     /\ last'.status = "ok"
     /\ last'.version \in Range(models[last'.id].active_versions)) =>
        models'[last'.id].active_versions = models[last'.id].active_versions

\* C39: in every reachable state the active_versions of a model has no
\* version twice and holds only versions of the model's version_history, and
\* activate_version of a version that is active already leaves the list as
\* it is
C39_ActiveVersionsWellFormed ==
    []ActiveVersionsWellFormed /\ [][ActivateIsIdempotent]_vars

\* an active version of a model with several versions was activated again
C39_Witness ==
    /\ last.op = "activate_version"
    /\ last.status = "ok"
    /\ last.version \in Range(models[last.id].active_versions)
    /\ Cardinality(version_history(models[last.id])) > 1


---------------------------------------------------------------------------
(* The active model set as a table, checked under SpecModels *)

\* active_models has one row per model id (the column is unique), so the set
\* is the function from the ids to their priorities
ActiveSetWellFormed ==
    /\ DOMAIN active_models \subseteq DOMAIN models
    /\ \A i, j \in DOMAIN active_models :
           active_models[i] = active_models[j] => i = j

DeleteLeavesNothing ==
    (last'.op = "delete_model" /\ last'.status = "ok") =>
        /\ last'.id \notin DOMAIN models'
        /\ last'.id \notin DOMAIN active_models'

\* C40: in every reachable state every entry of the active model set is the
\* id of a stored model, no model has two entries and no two entries have
\* one priority; after a successful delete_model(m) the store holds no
\* version row and no active-set entry of m
C40_ActiveSetWellFormed ==
    []ActiveSetWellFormed /\ [][DeleteLeavesNothing]_vars

\* a model was deleted while two models were stored, and before that the
\* other model was promoted over it
C40_Witness ==
    /\ last.op = "delete_model"
    /\ last.status = "ok"
    /\ last.id \notin DOMAIN models
    /\ \E i \in DOMAIN active_models : active_models[i] < -1

====
